---- MODULE Spec2Model ----
(***************************************************************************)
(* Bill-split allocation engine of the splitwise service.                  *)
(*                                                                         *)
(*   src/app/utils/split_calculator.py   splitwise_split (the cent-exact   *)
(*                                       primitive) and the primary        *)
(*                                       calculate_bill_split              *)
(*   src/split_calculator.py             the older calculate_bill_split    *)
(*                                                                         *)
(* Units.  Money handed to the primitive is counted in HALF-CENTS, so that *)
(* an amount with sub-cent precision (0.005, 0.015, 0.125 ...) is an odd   *)
(* number and a cent-exact amount is an even one.  Shares and totals are   *)
(* counted in CENTS: the code returns round(cents / 100, 2), the double    *)
(* nearest to cents/100, and reads it back with Decimal(str(x)), which     *)
(* yields exactly cents/100 again.                                         *)
(***************************************************************************)
EXTENDS Integers, Sequences, FiniteSets, TLC

(***************************************************************************)
(* Bounds of the model.                                                    *)
(***************************************************************************)
MaxHalfCents == 40      \* largest amount (half-cents) tried on the primitive
MaxCount     == 5       \* largest participant count tried on the primitive
MaxSize      == 6       \* size of a bill: its items, plus its vote entries,
                        \* plus the cents of its prices

Users == {"alice", "bob", "carol"}

VARIABLES
    sp_amount,      \* primitive: total_amount of the last call (half-cents)
    sp_n,           \* primitive: num_participants of the last call
    sp_out,         \* primitive: outcome of the last call
    items,          \* bill: sequence of item rows
    votes,          \* bill: item id -> list of user ids that ate it
    payer_id,       \* bill: the payer
    set_order,      \* interpreter: the order list(all_eaters) yields, <<>>
                    \* until this process has enumerated the set
    pc,             \* "input" while the bill is edited, then the
                    \* aggregator that was called: "primary" or "old"
    res,            \* outcome of the last primary calculate_bill_split
    prev,           \* outcome of the primary call before the last one
    resOld,         \* outcome of the older calculate_bill_split
    now,            \* auth: the wall clock, in half-seconds
    users_table,    \* auth: ids of the rows of the users table
    not_authenticated, \* auth: status the installed HTTPBearer answers a
                    \* request without Bearer credentials with
    issued,         \* auth: tokens create_token has returned
    auth_response,  \* auth: the last request and its outcome
    clock,          \* limiter: time.time(), in seconds
    requests,       \* limiter: self.requests[identifier], a deque
    lock,           \* limiter: the thread holding self.lock, or NoThread
    rl_pc,          \* limiter: position of each thread in is_allowed
    current_time,   \* limiter: each thread's local current_time
    returned,       \* limiter: the is_allowed calls that have returned
    buckets,        \* endpoints: rate_limiter.requests, identifier -> deque
    rl_log,         \* endpoints: the requests answered so far
    rl_last,        \* endpoints: the last request, with the deque of its
                    \* identifier before and after it
    db,             \* store: the bills, items and votes tables
    procs,          \* store: the requests in progress, each with its
                    \* position and its locals
    answers         \* store: the responses of the completed requests

vars == <<sp_amount, sp_n, sp_out, items, votes, payer_id, set_order,
          pc, res, prev, resOld,
          now, users_table, not_authenticated, issued, auth_response,
          clock, requests, lock, rl_pc, current_time, returned,
          buckets, rl_log, rl_last, db, procs, answers>>

primVars == <<sp_amount, sp_n, sp_out>>
billVars == <<items, votes, payer_id, set_order, pc, res, prev, resOld>>
authVars == <<now, users_table, not_authenticated, issued, auth_response>>
limiterVars == <<clock, requests, lock, rl_pc, current_time, returned>>
endpointVars == <<buckets, rl_log, rl_last>>
storeVars == <<db, procs, answers>>

(***************************************************************************)
(* Helpers.                                                                *)
(***************************************************************************)
Range(s) == {s[i] : i \in DOMAIN s}

Abs(x) == IF x < 0 THEN -x ELSE x

RECURSIVE SumSeq(_)
SumSeq(s) == IF s = <<>> THEN 0 ELSE Head(s) + SumSeq(Tail(s))

RECURSIVE SumOver(_, _)
SumOver(f, S) ==
    IF S = {} THEN 0
    ELSE LET x == CHOOSE y \in S : TRUE IN f[x] + SumOver(f, S \ {x})

\* sum(d.values()) of a dict
SumValues(f) == SumOver(f, DOMAIN f)

\* every order in which the elements of S can be enumerated
Enumerations(S) ==
    {p \in [1..Cardinality(S) -> S] : \A a \in S : \E i \in DOMAIN p : p[i] = a}

(***************************************************************************)
(* round(x): Python rounds a float to the nearest integer, ties to the     *)
(* even one.  h is total_amount in half-cents, so total_amount * 100 is    *)
(* h / 2 cents and a tie is an odd h.                                      *)
(***************************************************************************)
PyRound(h) ==
    LET q == h \div 2
    IN  IF h % 2 = 0 THEN q
        ELSE IF q % 2 = 0 THEN q ELSE q + 1

ValueError == [err |-> "ValueError", shares |-> <<>>]

\* SplitLoop with the test i <= remaining_cents: one extra cent is handed out
RECURSIVE SplitLoopOneMore(_, _, _, _, _)
SplitLoopOneMore(i, num_participants, base_cents_per_person, remaining_cents, result) ==
    IF i >= num_participants THEN result
    ELSE LET participant_cents ==
                 IF i <= remaining_cents THEN base_cents_per_person + 1
                 ELSE base_cents_per_person
         IN  SplitLoopOneMore(i + 1, num_participants, base_cents_per_person,
                              remaining_cents, Append(result, participant_cents))

\* SplitLoop with the extra cents handed to the last participants
RECURSIVE SplitLoopLast(_, _, _, _, _)
SplitLoopLast(i, num_participants, base_cents_per_person, remaining_cents, result) ==
    IF i >= num_participants THEN result
    ELSE LET participant_cents ==
                 IF i >= num_participants - remaining_cents
                 THEN base_cents_per_person + 1
                 ELSE base_cents_per_person
         IN  SplitLoopLast(i + 1, num_participants, base_cents_per_person,
                           remaining_cents, Append(result, participant_cents))

\* SplitLoop that hands every cent to the first participant
RECURSIVE SplitLoopAllToFirst(_, _, _, _, _)
SplitLoopAllToFirst(i, num_participants, base_cents_per_person, remaining_cents, result) ==
    IF i >= num_participants THEN result
    ELSE LET participant_cents ==
                 IF i = 0
                 THEN base_cents_per_person * num_participants + remaining_cents
                 ELSE 0
         IN  SplitLoopAllToFirst(i + 1, num_participants, base_cents_per_person,
                                 remaining_cents, Append(result, participant_cents))

\* the for-loop of splitwise_split, participant i (0-based) onwards
RECURSIVE SplitLoop(_, _, _, _, _)
SplitLoop(i, num_participants, base_cents_per_person, remaining_cents, result) ==
    IF i >= num_participants THEN result
    ELSE LET participant_cents ==
                 IF i < remaining_cents THEN base_cents_per_person + 1
                 ELSE base_cents_per_person
         IN  SplitLoop(i + 1, num_participants, base_cents_per_person,
                       remaining_cents, Append(result, participant_cents))

\* splitwise_split without the check of the amount
splitwise_split_unchecked(total_amount, num_participants) ==
    IF num_participants <= 0 THEN ValueError
    ELSE LET total_cents == PyRound(total_amount)
             base_cents_per_person == total_cents \div num_participants
             remaining_cents == total_cents % num_participants
         IN  [err |-> "none",
              shares |-> SplitLoop(0, num_participants, base_cents_per_person,
                                   remaining_cents, <<>>)]

splitwise_split(total_amount, num_participants) ==
    IF num_participants <= 0 THEN ValueError
    ELSE IF total_amount < 0 THEN ValueError
    ELSE LET total_cents == PyRound(total_amount)
             base_cents_per_person == total_cents \div num_participants
             remaining_cents == total_cents % num_participants
         IN  [err |-> "none",
              shares |-> SplitLoop(0, num_participants, base_cents_per_person,
                                   remaining_cents, <<>>)]

(***************************************************************************)
(* Binary floating point.  The totals leave the exact Decimals at line 89  *)
(* (float(total)) and the payer's value is a sum of floats (line 95).  A   *)
(* double greater than zero is m * 2^e with a mantissa m of 53 bits; m is  *)
(* written in base 2^13 as five digits, the least significant one first,   *)
(* the fifth being the leading bit.  Zero has no digits.  Long naturals    *)
(* are sequences of such digits of any length.                             *)
(***************************************************************************)
DigitBits == 13

Base == 2 ^ DigitBits

MantissaBits == 53

FloatZero == [m |-> <<>>, e |-> 0]

\* a long natural without its leading zero digits
RECURSIVE BigTrim(_)
BigTrim(x) ==
    IF x = <<>> THEN x
    ELSE IF x[Len(x)] = 0 THEN BigTrim(SubSeq(x, 1, Len(x) - 1)) ELSE x

\* x + y + carry
RECURSIVE BigAdd(_, _, _)
BigAdd(x, y, carry) ==
    IF x = <<>> /\ y = <<>> THEN (IF carry = 0 THEN <<>> ELSE <<carry>>)
    ELSE LET a == IF x = <<>> THEN 0 ELSE Head(x)
             b == IF y = <<>> THEN 0 ELSE Head(y)
             t == a + b + carry
         IN  <<t % Base>> \o BigAdd(IF x = <<>> THEN x ELSE Tail(x),
                                    IF y = <<>> THEN y ELSE Tail(y),
                                    t \div Base)

\* x * 2^t for t < DigitBits
RECURSIVE BigShlBits(_, _, _)
BigShlBits(x, t, carry) ==
    IF x = <<>> THEN (IF carry = 0 THEN <<>> ELSE <<carry>>)
    ELSE LET v == Head(x) * (2 ^ t) + carry
         IN  <<v % Base>> \o BigShlBits(Tail(x), t, v \div Base)

\* x * 2^n
BigShl(x, n) ==
    [i \in 1..(n \div DigitBits) |-> 0] \o BigShlBits(x, n % DigitBits, 0)

\* number of bits of a digit
RECURSIVE BitLen(_)
BitLen(d) == IF d = 0 THEN 0 ELSE 1 + BitLen(d \div 2)

\* number of bits of a long natural without leading zero digits
BigBitLen(x) ==
    IF x = <<>> THEN 0 ELSE DigitBits * (Len(x) - 1) + BitLen(x[Len(x)])

\* bit i of x, bit 0 being the least significant one
BigBit(x, i) == (x[i \div DigitBits + 1] \div (2 ^ (i % DigitBits))) % 2

\* some bit of x below bit i is set
BigLowBits(x, i) ==
    \/ \E j \in 1..(i \div DigitBits) : x[j] # 0
    \/ x[i \div DigitBits + 1] % (2 ^ (i % DigitBits)) # 0

\* x div 2^n, for n less than the number of bits of x
BigShr(x, n) ==
    LET rest == SubSeq(x, n \div DigitBits + 1, Len(x))
        t == n % DigitBits
    IN  BigTrim([i \in 1..Len(rest) |->
                   rest[i] \div (2 ^ t)
                   + (IF i < Len(rest) THEN rest[i + 1] % (2 ^ t) ELSE 0)
                     * (2 ^ (DigitBits - t))])

\* the double nearest to x * 2^e, ties to the even mantissa
FloatRound(x, e) ==
    LET bits == BigBitLen(x)
        drop == bits - MantissaBits
    IN  IF bits = 0 THEN FloatZero
        ELSE IF drop <= 0 THEN [m |-> BigShl(x, -drop), e |-> e + drop]
        ELSE LET q == BigShr(x, drop)
                 up == /\ BigBit(x, drop - 1) = 1
                       /\ (BigLowBits(x, drop - 1) \/ q[1] % 2 = 1)
                 r == IF up THEN BigAdd(q, <<>>, 1) ELSE q
             IN  IF BigBitLen(r) > MantissaBits
                 THEN [m |-> BigShr(r, 1), e |-> e + drop + 1]
                 ELSE [m |-> r, e |-> e + drop]

\* x + y of two doubles that are not negative
FloatAdd(x, y) ==
    IF x = FloatZero THEN y
    ELSE IF y = FloatZero THEN x
    ELSE LET e == IF x.e < y.e THEN x.e ELSE y.e
         IN  FloatRound(BigAdd(BigShl(x.m, x.e - e), BigShl(y.m, y.e - e), 0), e)

\* the digits of the quotient n / d after its leading bit, r being the
\* remainder so far and j the number of digits still to come
RECURSIVE DivDigits(_, _, _)
DivDigits(r, d, j) ==
    IF j = 0 THEN [digits |-> <<>>, r |-> r]
    ELSE LET t == r * Base
             rest == DivDigits(t % d, d, j - 1)
         IN  [digits |-> rest.digits \o <<t \div d>>, r |-> rest.r]

\* n / d brought between 1 and 2: n / d * 2^(-k)
RECURSIVE DivNorm(_, _, _)
DivNorm(n, d, k) ==
    IF n < d THEN DivNorm(2 * n, d, k - 1)
    ELSE IF n >= 2 * d THEN DivNorm(n, 2 * d, k + 1)
    ELSE [n |-> n, d |-> d, k |-> k]

\* the double nearest to cents / 100: float(Decimal) of a whole number of
\* cents, and participant_cents / 100
FloatOfCents(cents) ==
    IF cents = 0 THEN FloatZero
    ELSE LET nd == DivNorm(cents, 100, 0)
             q == DivDigits(nd.n - nd.d, nd.d, (MantissaBits - 1) \div DigitBits)
             m == q.digits \o <<1>>
             up == \/ 2 * q.r > nd.d
                   \/ 2 * q.r = nd.d /\ m[1] % 2 = 1
             r == IF up THEN BigAdd(m, <<>>, 1) ELSE m
             e == nd.k - (MantissaBits - 1)
         IN  IF BigBitLen(r) > MantissaBits
             THEN [m |-> BigShr(r, 1), e |-> e + 1]
             ELSE [m |-> r, e |-> e]

\* sum(...) of floats: the int 0 plus each term in turn
RECURSIVE FloatSum(_)
FloatSum(terms) ==
    IF terms = <<>> THEN FloatZero
    ELSE FloatAdd(FloatSum(SubSeq(terms, 1, Len(terms) - 1)), terms[Len(terms)])

(***************************************************************************)
(* The bill.  An item row is [id, price, is_tax_or_tip] with the price in  *)
(* cents; float(item['price']) of a cent-exact price is 2 * price          *)
(* half-cents.  Ids carry their type so that str(item['id']) is a          *)
(* conversion; the rows of the store and of the tests have string ids.     *)
(***************************************************************************)
ItemId(k) == [t |-> "str", v |-> k]

Str(id) == [t |-> "str", v |-> id.v]

Float(price) == 2 * price

\* votes.get(item_id, [])
VotesGet(vs, item_id) == IF item_id \in DOMAIN vs THEN vs[item_id] ELSE <<>>

\* user_base_totals[uid] += x on a defaultdict(Decimal)
AddTo(totals, uid, x) ==
    IF uid \in DOMAIN totals THEN [totals EXCEPT ![uid] = @ + x]
    ELSE totals @@ (uid :> x)

\* step 1: all_eaters.update(user_list) for every list of votes
AllEaters(vs) == UNION {Range(vs[k]) : k \in DOMAIN vs}

\* Accumulate with the shares handed out from the last one backwards
RECURSIVE AccumulateBackwards(_, _, _, _)
AccumulateBackwards(totals, uids, amounts, i) ==
    IF i > Len(uids) THEN totals
    ELSE AccumulateBackwards(AddTo(totals, uids[i], amounts[Len(uids) + 1 - i]),
                             uids, amounts, i + 1)

\* for i, uid in enumerate(uids): totals[uid] += amounts[i]
RECURSIVE Accumulate(_, _, _, _)
Accumulate(totals, uids, amounts, i) ==
    IF i > Len(uids) THEN totals
    ELSE Accumulate(AddTo(totals, uids[i], amounts[i]), uids, amounts, i + 1)

\* some enumeration of a set
RECURSIVE SetToSeq(_)
SetToSeq(S) ==
    IF S = {} THEN <<>>
    ELSE LET x == CHOOSE y \in S : TRUE IN <<x>> \o SetToSeq(S \ {x})

\* ItemStep that hands an item nobody voted on to all the eaters of the bill
ItemStepRedistributes(acc, item, vs) ==
    IF acc.err # "none" \/ item.is_tax_or_tip THEN acc
    ELSE LET voters == VotesGet(vs, Str(item.id))
             eaters == IF voters = <<>> THEN SetToSeq(AllEaters(vs)) ELSE voters
         IN  IF eaters = <<>> THEN acc
             ELSE LET split_amounts == splitwise_split(Float(item.price), Len(eaters))
                  IN  IF split_amounts.err # "none"
                      THEN [acc EXCEPT !.err = split_amounts.err]
                      ELSE [acc EXCEPT !.totals =
                               Accumulate(@, eaters, split_amounts.shares, 1)]

\* ItemStep without the test of is_tax_or_tip
ItemStepTaxToo(acc, item, vs) ==
    IF acc.err # "none" THEN acc
    ELSE LET eaters == VotesGet(vs, Str(item.id))
         IN  IF eaters = <<>> THEN acc
             ELSE LET split_amounts == splitwise_split(Float(item.price), Len(eaters))
                  IN  IF split_amounts.err # "none"
                      THEN [acc EXCEPT !.err = split_amounts.err]
                      ELSE [acc EXCEPT !.totals =
                               Accumulate(@, eaters, split_amounts.shares, 1)]

\* one turn of the loop over items of step 2: the item's price goes to its
\* voters, in the order of its vote list
ItemStep(acc, item, vs) ==
    IF acc.err # "none" \/ item.is_tax_or_tip THEN acc
    ELSE LET eaters == VotesGet(vs, Str(item.id))
         IN  IF eaters = <<>> THEN acc
             ELSE LET split_amounts == splitwise_split(Float(item.price), Len(eaters))
                  IN  IF split_amounts.err # "none"
                      THEN [acc EXCEPT !.err = split_amounts.err]
                      ELSE [acc EXCEPT !.totals =
                               Accumulate(@, eaters, split_amounts.shares, 1)]

\* step 2: user_base_totals after the loop over items
RECURSIVE ItemsLoop(_, _, _, _)
ItemsLoop(acc, its, vs, k) ==
    IF k > Len(its) THEN acc
    ELSE ItemsLoop(ItemStep(acc, its[k], vs), its, vs, k + 1)

\* step 3: the pool, sum of the prices of the tax/tip items (cents)
RECURSIVE TaxTipTotal(_)
TaxTipTotal(its) ==
    IF its = <<>> THEN 0
    ELSE (IF Head(its).is_tax_or_tip THEN Head(its).price ELSE 0)
         + TaxTipTotal(Tail(its))

\* step 3: the pool split over eater_list = list(all_eaters)
TaxTipStep(acc, tax_tip_total, eater_list) ==
    IF acc.err # "none" \/ ~(tax_tip_total > 0) THEN acc
    ELSE LET tax_tip_splits == splitwise_split(Float(tax_tip_total), Len(eater_list))
         IN  IF tax_tip_splits.err # "none"
             THEN [acc EXCEPT !.err = tax_tip_splits.err]
             ELSE [acc EXCEPT !.totals =
                      Accumulate(@, eater_list, tax_tip_splits.shares, 1)]

\* step 4: one entry per eater, 0.00 for an eater without contribution
BuildTotals(all_eaters, user_base_totals) ==
    [uid \in all_eaters |->
        IF uid \in DOMAIN user_base_totals THEN user_base_totals[uid] ELSE 0]

\* BalancePayer that keeps the payer's own consumption in the sum
BalancePayerAll(user_totals, payer) ==
    LET withPayer == IF payer \in DOMAIN user_totals THEN user_totals
                     ELSE user_totals @@ (payer :> 0)
        total_owed == SumOver(withPayer, DOMAIN withPayer)
    IN  [withPayer EXCEPT ![payer] = -total_owed]

\* BalancePayer that balances only a payer who is among the eaters
BalancePayerIfEater(user_totals, payer) ==
    IF payer \notin DOMAIN user_totals THEN user_totals
    ELSE LET total_others_owe == SumOver(user_totals, DOMAIN user_totals \ {payer})
         IN  [user_totals EXCEPT ![payer] = -total_others_owe]

\* BalancePayer without the minus sign
BalancePayerOwes(user_totals, payer) ==
    LET withPayer == IF payer \in DOMAIN user_totals THEN user_totals
                     ELSE user_totals @@ (payer :> 0)
        total_others_owe == SumOver(withPayer, DOMAIN withPayer \ {payer})
    IN  [withPayer EXCEPT ![payer] = total_others_owe]

\* step 5: the payer's entry is minus what all the others owe
BalancePayer(user_totals, payer) ==
    LET withPayer == IF payer \in DOMAIN user_totals THEN user_totals
                     ELSE user_totals @@ (payer :> 0)
        total_others_owe == SumOver(withPayer, DOMAIN withPayer \ {payer})
    IN  [withPayer EXCEPT ![payer] = -total_others_owe]

\* total_others_owe of step 5 as the float it is: the sum of float(total)
\* of the users other than the payer.  There are at most two of them, and
\* the sum of two floats does not depend on their order.
TotalOthersOwe(user_totals, payer) ==
    LET others == SetToSeq(DOMAIN user_totals \ {payer})
    IN  FloatSum([i \in 1..Len(others) |-> FloatOfCents(user_totals[others[i]])])

\* NoEaters that returns no entry at all
NoEatersNobody(payer) == <<>>

\* the early return of step 1
NoEaters(payer) == (payer :> 0)

EmptyAcc == [err |-> "none", totals |-> <<>>]

\* VerifyTotals that checks nothing
VerifyTotalsSkipped(user_totals) == TRUE

\* step 6: abs(total_sum) < 0.01
VerifyTotals(user_totals) == Abs(SumValues(user_totals)) < 1

\* step 6 and the return: the assertion ends the call when the check fails
ReturnTotals(payer, user_totals, locals) ==
    IF ~VerifyTotals(user_totals)
    THEN [status |-> "AssertionError", payer_id |-> payer, totals |-> <<>>,
          locals |-> locals]
    ELSE [status |-> "ok", payer_id |-> payer, totals |-> user_totals,
          locals |-> locals]

(***************************************************************************)
(* calculate_bill_split of src/app/utils/split_calculator.py.  eater_list  *)
(* is what list(all_eaters) yields in the running interpreter.  The result *)
(* keeps the locals the properties speak about next to the returned        *)
(* totals; status is "ok" or the exception that ended the call.  totals    *)
(* holds every value as the whole number of cents nearest to it; the float *)
(* the payer's value is the negation of is locals.total_others_owe.        *)
(***************************************************************************)
calculate_bill_split(its, vs, payer, eater_list) ==
    LET all_eaters == AllEaters(vs)
        afterItems == ItemsLoop(EmptyAcc, its, vs, 1)
        tax_tip_total == TaxTipTotal(its)
        afterTax == TaxTipStep(afterItems, tax_tip_total, eater_list)
        built == BuildTotals(all_eaters, afterTax.totals)
        user_totals == BalancePayer(built, payer)
        locals == [all_eaters |-> all_eaters, item_totals |-> afterItems.totals,
                   tax_tip_total |-> tax_tip_total, eater_list |-> eater_list,
                   user_base_totals |-> afterTax.totals,
                   total_others_owe |-> TotalOthersOwe(built, payer),
                   user_totals |-> user_totals]
    IN  IF all_eaters = {}
        THEN [status |-> "ok", payer_id |-> payer, totals |-> NoEaters(payer),
              locals |-> [locals EXCEPT !.item_totals = <<>>,
                                        !.user_base_totals = <<>>,
                                        !.tax_tip_total = 0,
                                        !.total_others_owe = FloatZero,
                                        !.user_totals = <<>>]]
        ELSE IF afterTax.err # "none"
        THEN [status |-> afterTax.err, payer_id |-> payer, totals |-> <<>>,
              locals |-> [locals EXCEPT !.total_others_owe = FloatZero,
                                        !.user_totals = <<>>]]
        ELSE ReturnTotals(payer, user_totals, locals)

\* get_bill_split of src/app/routers/bills.py, for a bill that exists: the
\* response to the result of the call, any exception becoming a 500 whose
\* detail is the text of the exception; the text of the assertion quotes
\* the totals that failed the check
get_bill_split(split_result) ==
    IF split_result.status = "ok"
    THEN [status_code |-> 200, splits |-> split_result.totals,
          payer_id |-> split_result.payer_id]
    ELSE [status_code |-> 500,
          detail |-> <<"Failed to calculate split",
                       IF split_result.status = "AssertionError"
                       THEN <<"Totals do not sum to zero",
                              split_result.locals.user_totals>>
                       ELSE <<split_result.status>> >>]

(***************************************************************************)
(* calculate_bill_split of src/split_calculator.py (the older aggregator). *)
(* It divides Decimals, so a share is a fraction of a cent: amounts are    *)
(* counted in 1/Scale cents, Scale being a common multiple of every        *)
(* divisor that occurs.  A quotient whose decimal expansion does not end   *)
(* (a third of a cent) is cut at the 28 digits of the Decimal context; the *)
(* cut is far below a cent and shows only when the exact total of a user   *)
(* is a tie k + 1/2 cents: quantize(ROUND_HALF_UP) then goes up or down    *)
(* with the accumulated cut (three thirds of 4000.00 plus 0.005 give       *)
(* 4000.00, three thirds of 0.01 plus 0.005 give 0.02).  tieDown is the    *)
(* set of users for whom such a total fell below the tie.                  *)
(***************************************************************************)
RECURSIVE Gcd(_, _)
Gcd(a, b) == IF b = 0 THEN a ELSE Gcd(b, a % b)

RECURSIVE LcmUpTo(_)
LcmUpTo(n) == IF n <= 1 THEN 1
              ELSE LET l == LcmUpTo(n - 1) IN (l * n) \div Gcd(l, n)

Scale == LcmUpTo(MaxSize)

RECURSIVE Strip(_, _)
Strip(n, p) == IF n % p = 0 THEN Strip(n \div p, p) ELSE n

\* price / n (price in cents, n >= 1) has a finite decimal expansion
Terminates(price, n) == price % Strip(Strip(n, 2), 5) = 0

\* for uid in eaters: user_base_totals[uid] += share
RECURSIVE OldAccumulate(_, _, _, _, _)
OldAccumulate(acc, uids, share, cut, i) ==
    IF i > Len(uids) THEN acc
    ELSE OldAccumulate([totals |-> AddTo(acc.totals, uids[i], share),
                        cut |-> IF cut THEN acc.cut \cup {uids[i]} ELSE acc.cut],
                       uids, share, cut, i + 1)

\* OldItemStep that divides the price among all the eaters of the bill
OldItemStepAllEaters(acc, item, vs) ==
    IF item.is_tax_or_tip THEN acc
    ELSE LET eaters == SetToSeq(AllEaters(vs))
         IN  IF eaters = <<>> THEN acc
             ELSE OldAccumulate(acc, eaters,
                                (item.price * Scale) \div Len(eaters),
                                ~Terminates(item.price, Len(eaters)), 1)

OldItemStep(acc, item, vs) ==
    IF item.is_tax_or_tip THEN acc
    ELSE LET eaters == VotesGet(vs, Str(item.id))
         IN  IF eaters = <<>> THEN acc
             ELSE OldAccumulate(acc, eaters,
                                (item.price * Scale) \div Len(eaters),
                                ~Terminates(item.price, Len(eaters)), 1)

RECURSIVE OldItemsLoop(_, _, _, _)
OldItemsLoop(acc, its, vs, k) ==
    IF k > Len(its) THEN acc
    ELSE OldItemsLoop(OldItemStep(acc, its[k], vs), its, vs, k + 1)

\* val.quantize(Decimal('0.01'), rounding=ROUND_HALF_UP), val >= 0 in
\* 1/Scale cents, the result in cents
Quantize(val, cut, down) ==
    LET q == val \div Scale
        r == val % Scale
    IN  IF 2 * r < Scale THEN q
        ELSE IF 2 * r > Scale THEN q + 1
        ELSE IF cut /\ down THEN q ELSE q + 1

old_calculate_bill_split(its, vs, payer, tieDown) ==
    LET all_eaters == AllEaters(vs)
        base == OldItemsLoop([totals |-> <<>>, cut |-> {}], its, vs, 1)
        tax_tip_total == TaxTipTotal(its)
        n == Cardinality(all_eaters)
        tax_tip_per_person == (tax_tip_total * Scale) \div n
        taxCut == ~Terminates(tax_tip_total, n)
        user_totals == [uid \in all_eaters |->
                          (IF uid \in DOMAIN base.totals THEN base.totals[uid] ELSE 0)
                          + tax_tip_per_person]
        others == all_eaters \ {payer}
        rounded == [uid \in others |->
                      Quantize(user_totals[uid], taxCut \/ uid \in base.cut,
                               uid \in tieDown)]
        payer_val == -SumValues(rounded)
        rounded_totals == rounded @@ (payer :> payer_val)
    IN  IF all_eaters = {}
        THEN [status |-> "ok", payer_id |-> payer, totals |-> (payer :> 0)]
        ELSE IF ~(Abs(SumValues(rounded_totals)) < 1)
        THEN [status |-> "AssertionError", payer_id |-> payer, totals |-> <<>>]
        ELSE [status |-> "ok", payer_id |-> payer, totals |-> rounded_totals]

(***************************************************************************)
(* The state machine of the bill: item rows and votes are added while the  *)
(* bill is edited, then the split is computed.                             *)
(***************************************************************************)
NotCalled == [status |-> "not called"]

Prices == 0..MaxSize

VoteCount == SumOver([k \in DOMAIN votes |-> Len(votes[k])], DOMAIN votes)

RECURSIVE PriceSum(_)
PriceSum(its) ==
    IF its = <<>> THEN 0 ELSE Abs(Head(its).price) + PriceSum(Tail(its))

Size == Len(items) + VoteCount + PriceSum(items)

(***************************************************************************)
(* The services in front of the engine, before any request: the           *)
(* authentication dependency and the rate limiter.                         *)
(***************************************************************************)
NoToken == [form |-> "none", key |-> "", user_id |-> "", iat |-> 0, exp |-> 0]

NoHeader == [scheme |-> "none", credentials |-> NoToken]

NoResponse == [status_code |-> 0, handler_ran |-> FALSE, detail |-> "",
               authorization |-> NoHeader, auth_token |-> NoToken, at |-> 0]

Threads == {"t1", "t2"}

NoThread == "none"

InitAuthIdle ==
    /\ now = 0
    /\ users_table = {}
    /\ not_authenticated = 401
    /\ issued = {}
    /\ auth_response = NoResponse

\* RateLimiter.__init__: no request recorded, the lock free
InitLimiterIdle ==
    /\ clock = 0
    /\ requests = <<>>
    /\ lock = NoThread
    /\ rl_pc = [t \in Threads |-> "idle"]
    /\ current_time = [t \in Threads |-> 0]
    /\ returned = <<>>

\* the module-level rate_limiter = RateLimiter() before any request
NoCall == [endpoint |-> "", identifier |-> <<"", "">>, status_code |-> 0,
           headers |-> <<>>, invoked |-> FALSE, at |-> 0,
           before |-> <<>>, after |-> <<>>]

InitEndpointsIdle ==
    /\ buckets = <<>>
    /\ rl_log = <<>>
    /\ rl_last = NoCall

\* the store with its tables empty and no request in progress
InitStoreIdle ==
    /\ db = [bills |-> {}, items |-> {}, votes |-> {}, next_id |-> 1]
    /\ procs = <<>>
    /\ answers = <<>>

InitPrimitive ==
    /\ sp_amount = 0
    /\ sp_n = 0
    /\ sp_out = [err |-> "not called", shares |-> <<>>]

InitBill ==
    /\ items = <<>>
    /\ votes = <<>>
    /\ payer_id \in Users
    /\ set_order = <<>>
    /\ pc = "input"
    /\ res = NotCalled
    /\ prev = NotCalled
    /\ resOld = NotCalled

Init ==
    /\ InitPrimitive
    /\ InitBill
    /\ InitAuthIdle
    /\ InitLimiterIdle
    /\ InitEndpointsIdle
    /\ InitStoreIdle

\* an item row is created; votes_by_item, as get_bill_split builds it, has
\* an entry for every item of the bill
AddItem(price, is_tax_or_tip) ==
    /\ pc = "input"
    /\ Size + 1 + price <= MaxSize
    /\ LET id == ItemId(Len(items) + 1)
       IN  /\ items' = Append(items, [id |-> id, price |-> price,
                                       is_tax_or_tip |-> is_tax_or_tip])
           /\ votes' = votes @@ (id :> <<>>)
    /\ UNCHANGED <<payer_id, set_order, pc, res, prev, resOld>>
    /\ UNCHANGED primVars
    /\ UNCHANGED <<authVars, limiterVars, endpointVars, storeVars>>

\* a user is recorded as having eaten item k
AddVote(k, uid) ==
    /\ pc = "input"
    /\ k \in 1..Len(items)
    /\ Size + 1 <= MaxSize
    /\ votes' = [votes EXCEPT ![items[k].id] = Append(@, uid)]
    /\ UNCHANGED <<items, payer_id, set_order, pc, res, prev, resOld>>
    /\ UNCHANGED primVars
    /\ UNCHANGED <<authVars, limiterVars, endpointVars, storeVars>>

\* list(all_eaters) is evaluated only when the pool is positive
EnumeratesEaters == AllEaters(votes) # {} /\ TaxTipTotal(items) > 0

\* the primary aggregator is called on the bill
CallPrimary ==
    /\ pc = "input"
    /\ \E order \in Enumerations(AllEaters(votes)) :
          /\ set_order # <<>> => order = set_order
          /\ set_order' = IF EnumeratesEaters THEN order ELSE set_order
          /\ res' = calculate_bill_split(items, votes, payer_id,
                                         IF EnumeratesEaters THEN order ELSE <<>>)
    /\ pc' = "primary"
    /\ UNCHANGED <<items, votes, payer_id, prev, resOld>>
    /\ UNCHANGED primVars
    /\ UNCHANGED <<authVars, limiterVars, endpointVars, storeVars>>

\* the server process is started anew: the hash seed of str is drawn again,
\* and with it the iteration order of a set of user ids
Restart ==
    /\ pc = "primary"
    /\ set_order # <<>>
    /\ set_order' = <<>>
    /\ UNCHANGED <<items, votes, payer_id, pc, res, prev, resOld>>
    /\ UNCHANGED primVars
    /\ UNCHANGED <<authVars, limiterVars, endpointVars, storeVars>>

\* the primary aggregator is called once more on the unchanged bill
CallAgain ==
    /\ pc = "primary"
    /\ prev = NotCalled
    /\ \E order \in Enumerations(AllEaters(votes)) :
          /\ set_order # <<>> => order = set_order
          /\ set_order' = IF EnumeratesEaters THEN order ELSE set_order
          /\ res' = calculate_bill_split(items, votes, payer_id,
                                         IF EnumeratesEaters THEN order ELSE <<>>)
    /\ prev' = res
    /\ UNCHANGED <<items, votes, payer_id, pc, resOld>>
    /\ UNCHANGED primVars
    /\ UNCHANGED <<authVars, limiterVars, endpointVars, storeVars>>

\* the older aggregator is called on the bill
CallOld ==
    /\ pc = "input"
    /\ \E tieDown \in SUBSET Users :
          resOld' = old_calculate_bill_split(items, votes, payer_id, tieDown)
    /\ pc' = "old"
    /\ UNCHANGED <<items, votes, payer_id, set_order, res, prev>>
    /\ UNCHANGED primVars
    /\ UNCHANGED <<authVars, limiterVars, endpointVars, storeVars>>

Next ==
    \/ \E price \in Prices, is_tax_or_tip \in BOOLEAN : AddItem(price, is_tax_or_tip)
    \/ \E k \in 1..MaxSize, uid \in Users : AddVote(k, uid)
    \/ CallPrimary
    \/ CallOld

Spec == Init /\ [][Next]_vars

(***************************************************************************)
(* The same bill split twice, by one server process or by two.             *)
(***************************************************************************)
NextRerun ==
    \/ \E price \in Prices, is_tax_or_tip \in BOOLEAN : AddItem(price, is_tax_or_tip)
    \/ \E k \in 1..MaxSize, uid \in Users : AddVote(k, uid)
    \/ CallPrimary
    \/ Restart
    \/ CallAgain

SpecRerun == Init /\ [][NextRerun]_vars

(***************************************************************************)
(* The bill as the endpoints build it: POST /items and PUT /items/{id}     *)
(* store float(price) of whatever price the request carries.               *)
(***************************************************************************)
RequestPrices == (-1)..MaxSize

\* PUT /items/{item_id} with a price and a flag
UpdateItem(k, price, is_tax_or_tip) ==
    /\ pc = "input"
    /\ k \in 1..Len(items)
    /\ Size - Abs(items[k].price) + Abs(price) <= MaxSize
    /\ items' = [items EXCEPT ![k].price = price,
                              ![k].is_tax_or_tip = is_tax_or_tip]
    /\ UNCHANGED <<votes, payer_id, set_order, pc, res, prev, resOld>>
    /\ UNCHANGED primVars
    /\ UNCHANGED <<authVars, limiterVars, endpointVars, storeVars>>

NextApi ==
    \/ \E price \in RequestPrices, is_tax_or_tip \in BOOLEAN :
          AddItem(price, is_tax_or_tip)
    \/ \E k \in 1..MaxSize, price \in RequestPrices, is_tax_or_tip \in BOOLEAN :
          UpdateItem(k, price, is_tax_or_tip)
    \/ \E k \in 1..MaxSize, uid \in Users : AddVote(k, uid)
    \/ CallPrimary

SpecApi == Init /\ [][NextApi]_vars

(***************************************************************************)
(* calculate_bill_split called with identifiers of another type: the ids   *)
(* of the items and the keys of votes are equal values, all strings, all   *)
(* integers or all UUID objects.                                           *)
(***************************************************************************)
IdTypes == {"str", "int", "UUID"}

AddItemTyped(t, price, is_tax_or_tip) ==
    /\ pc = "input"
    /\ items # <<>> => t = items[1].id.t
    /\ Size + 1 + price <= MaxSize
    /\ LET id == [t |-> t, v |-> Len(items) + 1]
       IN  /\ items' = Append(items, [id |-> id, price |-> price,
                                       is_tax_or_tip |-> is_tax_or_tip])
           /\ votes' = votes @@ (id :> <<>>)
    /\ UNCHANGED <<payer_id, set_order, pc, res, prev, resOld>>
    /\ UNCHANGED primVars
    /\ UNCHANGED <<authVars, limiterVars, endpointVars, storeVars>>

NextIds ==
    \/ \E t \in IdTypes, price \in Prices, is_tax_or_tip \in BOOLEAN :
          AddItemTyped(t, price, is_tax_or_tip)
    \/ \E k \in 1..MaxSize, uid \in Users : AddVote(k, uid)
    \/ CallPrimary

SpecIds == Init /\ [][NextIds]_vars

(***************************************************************************)
(* Step 6 on its own.  The totals of steps 1-5 are floats, and for amounts *)
(* beyond the 53 bits of a double their sum is off zero (one item of       *)
(* 312670661196910.8 with four voters gives a sum of -0.03125).  The bills *)
(* above are far too small for that, so the check and the response are     *)
(* applied to totals drawn from a small range around zero.                 *)
(***************************************************************************)
MaxDrift == 2

NoLocals ==
    [all_eaters |-> {}, item_totals |-> <<>>, tax_tip_total |-> 0,
     eater_list |-> <<>>, user_base_totals |-> <<>>,
     total_others_owe |-> FloatZero, user_totals |-> <<>>]

CheckTotals(user_totals) ==
    /\ pc = "input"
    /\ payer_id \in DOMAIN user_totals
    /\ res' = ReturnTotals(payer_id, user_totals,
                           [NoLocals EXCEPT !.all_eaters = DOMAIN user_totals,
                                            !.user_totals = user_totals])
    /\ pc' = "primary"
    /\ UNCHANGED <<items, votes, payer_id, set_order, prev, resOld>>
    /\ UNCHANGED primVars
    /\ UNCHANGED <<authVars, limiterVars, endpointVars, storeVars>>

NextVerify ==
    \E S \in SUBSET Users :
        \E user_totals \in [S -> (-MaxDrift)..MaxDrift] : CheckTotals(user_totals)

SpecVerify == Init /\ [][NextVerify]_vars

(***************************************************************************)
(* The primitive called on its own, with valid and invalid arguments.      *)
(***************************************************************************)
Amounts == (-2)..MaxHalfCents \cup {2000, 3134}

Counts == (-1)..MaxCount

InitPrim ==
    /\ InitPrimitive
    /\ InitBill
    /\ InitAuthIdle
    /\ InitLimiterIdle
    /\ InitEndpointsIdle
    /\ InitStoreIdle
    /\ payer_id = "alice"

CallSplit(total_amount, num_participants) ==
    /\ sp_amount' = total_amount
    /\ sp_n' = num_participants
    /\ sp_out' = splitwise_split(total_amount, num_participants)
    /\ UNCHANGED billVars
    /\ UNCHANGED <<authVars, limiterVars, endpointVars, storeVars>>

NextPrim == \E a \in Amounts, n \in Counts : CallSplit(a, n)

SpecPrim == InitPrim /\ [][NextPrim]_vars

(***************************************************************************)
(* The bill of src/tests/test_config.py and src/scripts/verify_split.py:   *)
(* its five items are in the store, Alice pays, and the votes are cast one *)
(* by one, each item's voters in the order of its list.                    *)
(***************************************************************************)
TEST_ITEMS ==
    << [price |-> 1899, is_tax_or_tip |-> FALSE, voters |-> <<"alice", "bob">>],
       [price |-> 650,  is_tax_or_tip |-> FALSE, voters |-> <<"alice", "bob", "carol">>],
       [price |-> 399,  is_tax_or_tip |-> FALSE, voters |-> <<"bob">>],
       [price |-> 251,  is_tax_or_tip |-> TRUE,  voters |-> <<>>],
       [price |-> 576,  is_tax_or_tip |-> TRUE,  voters |-> <<>>] >>

InitScenario ==
    /\ InitPrimitive
    /\ InitAuthIdle
    /\ InitLimiterIdle
    /\ InitEndpointsIdle
    /\ InitStoreIdle
    /\ items = [k \in DOMAIN TEST_ITEMS |->
                  [id |-> ItemId(k), price |-> TEST_ITEMS[k].price,
                   is_tax_or_tip |-> TEST_ITEMS[k].is_tax_or_tip]]
    /\ votes = [id \in {ItemId(k) : k \in DOMAIN TEST_ITEMS} |-> <<>>]
    /\ payer_id \in Users
    /\ set_order = <<>>
    /\ pc = "input"
    /\ res = NotCalled
    /\ prev = NotCalled
    /\ resOld = NotCalled

\* the next voter of item k records that they ate it
CastVote(k) ==
    /\ pc = "input"
    /\ Len(votes[ItemId(k)]) < Len(TEST_ITEMS[k].voters)
    /\ votes' = [votes EXCEPT ![ItemId(k)] =
                    Append(@, TEST_ITEMS[k].voters[Len(@) + 1])]
    /\ UNCHANGED <<items, payer_id, set_order, pc, res, prev, resOld>>
    /\ UNCHANGED primVars
    /\ UNCHANGED <<authVars, limiterVars, endpointVars, storeVars>>

NextScenario ==
    \/ \E k \in DOMAIN TEST_ITEMS : CastVote(k)
    \/ CallPrimary

SpecScenario == InitScenario /\ [][NextScenario]_vars

(***************************************************************************)
(* Properties of the primitive (under SpecPrim).                           *)
(***************************************************************************)
Called == sp_out.err # "not called"

ValidCall == Called /\ sp_n >= 1 /\ sp_amount >= 0

\* C2 - exactness of the primitive: a call with total_amount >= 0 and
\* participant_count >= 1 returns exactly participant_count shares, each a
\* whole, non-negative number of cents, and their sum is total_amount
\* rounded to a nearest cent: the amount itself when it is cent-exact, and
\* never more than half a cent away from it.
C2_Exactness ==
    ValidCall =>
        /\ sp_out.err = "none"
        /\ Len(sp_out.shares) = sp_n
        /\ \A i \in 1..Len(sp_out.shares) : sp_out.shares[i] \in Nat
        /\ Abs(2 * SumSeq(sp_out.shares) - sp_amount) <= 1
        /\ sp_amount % 2 = 0 => 2 * SumSeq(sp_out.shares) = sp_amount

\* 10.00 split three ways: a remainder cent is handed out and none is lost
C2_Witness ==
    /\ sp_amount = 2000 /\ sp_n = 3
    /\ sp_out.err = "none"
    /\ SumSeq(sp_out.shares) = 1000

C9_InvalidArguments ==
    Called =>
        IF sp_n <= 0 \/ sp_amount < 0
        THEN sp_out.err = "ValueError" /\ sp_out.shares = <<>>
        ELSE sp_out.err = "none"

\* a negative amount with a valid count is refused
C9_Witness ==
    /\ sp_amount < 0 /\ sp_n >= 1
    /\ sp_out.err = "ValueError"

\* C14 - round half up: the cents that are split are total_amount rounded
\* to the nearest cent, an amount halfway between two cents going to the
\* higher one.
C14_RoundHalfUp ==
    ValidCall => SumSeq(sp_out.shares) = (sp_amount + 1) \div 2

(***************************************************************************)
(* Properties of the aggregators (under Spec).  What a property says of    *)
(* the bill is written down from the bill itself, as sums over its items   *)
(* and vote lists, and compared with what the call computed.               *)
(***************************************************************************)
Primary == pc = "primary"

Eaters == AllEaters(votes)

Get(f, uid) == IF uid \in DOMAIN f THEN f[uid] ELSE 0

Voters(k) == VotesGet(votes, items[k].id)

\* the items that are no tax or tip and have at least one voter
VotedItems == {k \in 1..Len(items) : ~items[k].is_tax_or_tip /\ Voters(k) # <<>>}

TaxItems == {k \in 1..Len(items) : items[k].is_tax_or_tip}

VotedPrices == SumOver([k \in VotedItems |-> items[k].price], VotedItems)

Pool == SumOver([k \in TaxItems |-> items[k].price], TaxItems)

\* the shares of item k among its voters
SharesOf(k) == splitwise_split(Float(items[k].price), Len(Voters(k))).shares

\* what user uid gets of item k: the shares at the positions uid holds in
\* the vote list of k
ShareOfItem(uid, k) ==
    LET at == {i \in 1..Len(Voters(k)) : Voters(k)[i] = uid}
    IN  SumOver([i \in at |-> SharesOf(k)[i]], at)

\* C1 - conservation: for non-negative cent-exact prices, any votes and any
\* payer, each aggregator returns totals, and they sum to zero within one
\* cent.
C1_Conservation ==
    /\ Primary => res.status = "ok" /\ Abs(SumValues(res.totals)) < 1
    /\ pc = "old" => resOld.status = "ok" /\ Abs(SumValues(resOld.totals)) < 1

\* the payer ate too, owes a share of their own, and the others owe the rest
C1_Witness ==
    /\ Primary
    /\ payer_id \in Eaters
    /\ Get(res.locals.user_base_totals, payer_id) > 0
    /\ res.totals[payer_id] < 0
    /\ SumValues(res.totals) = 0

\* C4 - an item that is no tax or tip is divided only among its voters: the
\* i-th voter of its list gets the i-th share of splitwise_split(price,
\* number of voters), the shares of an item sum to its price, and a user
\* who is not in the list gets nothing of it.
C4_ItemShares ==
    (Primary /\ Eaters # {}) =>
        /\ res.status = "ok"
        /\ \A uid \in Users :
              Get(res.locals.item_totals, uid)
                 = SumOver([k \in VotedItems |-> ShareOfItem(uid, k)], VotedItems)
        /\ \A uid \in Users :
              (\A k \in VotedItems : uid \notin Range(Voters(k)))
                 => uid \notin DOMAIN res.locals.item_totals
        /\ \A k \in VotedItems : SumSeq(SharesOf(k)) = items[k].price
        /\ SumValues(res.locals.item_totals) = VotedPrices

\* an item whose price leaves a remainder among its voters, on a bill with
\* an eater who did not vote for it
C4_Witness ==
    /\ Primary
    /\ \E k \in VotedItems :
          /\ Len(Voters(k)) >= 2
          /\ items[k].price % Len(Voters(k)) # 0
          /\ Eaters \ Range(Voters(k)) # {}
          /\ Get(res.locals.item_totals, Voters(k)[1])
                > Get(res.locals.item_totals, Voters(k)[2])

\* what the call added to a user in step 3
PoolShare(uid) ==
    Get(res.locals.user_base_totals, uid) - Get(res.locals.item_totals, uid)

\* C5 - pooled tax/tip: the prices of the tax/tip items are summed into one
\* pool, which is split among the whole eater set: each eater gets
\* floor(pool / n) or one cent more, exactly pool mod n eaters get the cent
\* more, the shares sum to the pool, nobody else gets any of it, and no
\* tax/tip item is divided by its own voter list.
C5_PooledTaxTip ==
    (Primary /\ Eaters # {}) =>
        LET n == Cardinality(Eaters)
        IN  /\ res.status = "ok"
            /\ res.locals.tax_tip_total = Pool
            /\ \A uid \in Eaters : PoolShare(uid) \in {Pool \div n, Pool \div n + 1}
            /\ Cardinality({uid \in Eaters : PoolShare(uid) = Pool \div n + 1})
                  = Pool % n
            /\ \A uid \in Users \ Eaters : PoolShare(uid) = 0
            /\ SumOver([uid \in Eaters |-> PoolShare(uid)], Eaters) = Pool
            /\ SumValues(res.locals.item_totals) = VotedPrices

\* two tax/tip items, one of them with voters of its own, and a pool that
\* leaves a remainder among the eaters
C5_Witness ==
    /\ Primary
    /\ Cardinality(TaxItems) >= 2
    /\ \E k \in TaxItems : Voters(k) # <<>>
    /\ Cardinality(Eaters) >= 2
    /\ Pool % Cardinality(Eaters) # 0
    /\ \E uid \in Eaters : PoolShare(uid) = Pool \div Cardinality(Eaters) + 1

\* C6 - payer balancing: with a non-empty eater set, totals[payer_id] is
\* minus the sum of the totals of all the others, whether or not the payer
\* voted; the others carry what was accumulated for them; a payer outside
\* the eater set is added with that value; the keys of totals are the eater
\* set plus the payer.
C6_PayerBalancing ==
    (Primary /\ Eaters # {}) =>
        /\ res.status = "ok"
        /\ res.payer_id = payer_id
        /\ DOMAIN res.totals = Eaters \cup {payer_id}
        /\ \A uid \in Eaters \ {payer_id} :
              res.totals[uid] = Get(res.locals.user_base_totals, uid)
        /\ res.totals[payer_id]
              = -SumOver(res.totals, DOMAIN res.totals \ {payer_id})

\* the payer ate nothing and is owed what the eaters consumed
C6_Witness ==
    /\ Primary
    /\ Eaters # {}
    /\ payer_id \notin Eaters
    /\ payer_id \in DOMAIN res.totals
    /\ res.totals[payer_id] < 0

HasVotersOrIsTaxTip(item) ==
    item.is_tax_or_tip \/ VotesGet(votes, Str(item.id)) # <<>>

\* C7 - no voters: an item that is no tax or tip and has no voter gives
\* nothing to anybody; the bill without such items has the same totals.
C7_NoVoters ==
    Primary =>
        /\ res.status = "ok"
        /\ res.totals
              = calculate_bill_split(SelectSeq(items, HasVotersOrIsTaxTip), votes,
                                     payer_id, res.locals.eater_list).totals

\* an item with a price and no voter, next to an item somebody ate
C7_Witness ==
    /\ Primary
    /\ \E k \in 1..Len(items) :
          ~items[k].is_tax_or_tip /\ Voters(k) = <<>> /\ items[k].price > 0
    /\ \E k \in VotedItems : items[k].price > 0
    /\ \E uid \in Eaters : uid # payer_id /\ res.totals[uid] > 0

\* C8 - empty input: when no user is in any vote list, the call returns the
\* payer id and totals that hold the payer alone, mapped to zero, whatever
\* the items and prices of the bill.
C8_EmptyInput ==
    (Primary /\ Eaters = {}) =>
        /\ res.status = "ok"
        /\ res.payer_id = payer_id
        /\ DOMAIN res.totals = {payer_id}
        /\ res.totals[payer_id] = 0

\* a bill with a priced item and a priced tax item, and nobody voted
C8_Witness ==
    /\ Primary
    /\ Eaters = {}
    /\ \E k \in TaxItems : items[k].price > 0
    /\ \E k \in 1..Len(items) : ~items[k].is_tax_or_tip /\ items[k].price > 0
    /\ res.totals = (payer_id :> 0)

\* C12 - sign invariant: with non-negative prices the payer's value is at
\* most zero (when the payer did not eat, and when the payer did), and the
\* value of every other user in totals is at least zero; so for both
\* aggregators.
C12_Signs ==
    /\ Primary =>
          /\ res.status = "ok"
          /\ res.totals[payer_id] <= 0
          /\ \A uid \in DOMAIN res.totals \ {payer_id} : res.totals[uid] >= 0
    /\ pc = "old" =>
          /\ resOld.status = "ok"
          /\ resOld.totals[payer_id] <= 0
          /\ \A uid \in DOMAIN resOld.totals \ {payer_id} : resOld.totals[uid] >= 0

\* the payer ate nothing; one of the others owes money and another owes none
C12_Witness ==
    /\ Primary
    /\ payer_id \notin Eaters
    /\ res.totals[payer_id] < 0
    /\ \E uid \in Eaters : res.totals[uid] > 0
    /\ \E uid \in Eaters : res.totals[uid] = 0

NonPayers == DOMAIN res.totals \ {payer_id}

\* uid voted on an item with a price greater than zero
AtePriced(uid) ==
    \E k \in 1..Len(items) : uid \in Range(Voters(k)) /\ items[k].price > 0

\* uid voted on an item that is no tax or tip and costs at least one cent
\* per entry of its vote list
AteCentEach(uid) ==
    \E k \in VotedItems :
        uid \in Range(Voters(k)) /\ items[k].price >= Len(Voters(k))

\* C13 as stated - strict signs: on a bill where somebody besides the payer
\* is in totals and each of them voted on an item with a price greater than
\* zero, the payer's amount is strictly negative and every other amount is
\* strictly positive.
C13_StrictSigns ==
    (Primary /\ NonPayers # {} /\ \A uid \in NonPayers : AtePriced(uid)) =>
        /\ res.totals[payer_id] < 0
        /\ \A uid \in NonPayers : res.totals[uid] > 0

\* C13 amended - every user besides the payer who voted on an item that is
\* no tax or tip and costs at least one cent per entry of its vote list has
\* a strictly positive amount, and with such a user on the bill the payer's
\* amount is strictly negative.
C13_StrictSignsCentEach ==
    Primary =>
        /\ \A uid \in NonPayers : AteCentEach(uid) => res.totals[uid] > 0
        /\ (\E uid \in NonPayers : AteCentEach(uid)) => res.totals[payer_id] < 0

\* an item of two cents or more with two voters besides the payer, one cent
\* each at least
C13_Witness ==
    /\ Primary
    /\ \E k \in VotedItems :
          /\ Len(Voters(k)) >= 2
          /\ items[k].price >= Len(Voters(k))
          /\ payer_id \notin Range(Voters(k))
          /\ \A i \in 1..Len(Voters(k)) : res.totals[Voters(k)[i]] > 0
    /\ res.totals[payer_id] < 0

(***************************************************************************)
(* Two calls on the same bill (under SpecRerun).                           *)
(***************************************************************************)
\* C10 - idempotence: two calls with identical items, votes and payer id
\* return identical totals for every user; who gets the remainder cents of
\* the pool depends on nothing but these inputs.
C10_Idempotence ==
    prev # NotCalled => res.totals = prev.totals

(***************************************************************************)
(* The bill of the tests (under SpecScenario).                             *)
(***************************************************************************)
AllVotesCast == \A k \in DOMAIN TEST_ITEMS : Voters(k) = TEST_ITEMS[k].voters

\* C11 - concrete scenario: Pizza 18.99 (A, B), Bread 6.50 (A, B, C), Cola
\* 3.99 (B), Tax 2.51 and Tip 5.76 pooled, payer A: the eater set is
\* {A, B, C}, the pool of 8.27 is split 2.76 / 2.76 / 2.75 in the order A,
\* B, C in which the eaters are first seen, the totals sum to zero, A's
\* value is negative, B's and C's are positive, and B's exceeds C's.
C11_Scenario ==
    (Primary /\ AllVotesCast /\ payer_id = "alice") =>
        /\ res.status = "ok"
        /\ res.locals.all_eaters = {"alice", "bob", "carol"}
        /\ res.locals.tax_tip_total = 827
        /\ PoolShare("alice") = 276
        /\ PoolShare("bob") = 276
        /\ PoolShare("carol") = 275
        /\ SumValues(res.totals) = 0
        /\ res.totals["alice"] < 0
        /\ res.totals["bob"] > 0
        /\ res.totals["carol"] > 0
        /\ res.totals["bob"] > res.totals["carol"]

\* C15 - cent-exact output: every value of the returned totals is a whole
\* number of cents; the payer's value, minus the sum of the others' floats,
\* is the float of a whole number of cents and carries no drift.
C15_CentExact ==
    (Primary /\ res.status = "ok") =>
        res.locals.total_others_owe = FloatOfCents(-res.totals[payer_id])

(***************************************************************************)
(* The zero-sum check and the response (under SpecVerify).                 *)
(***************************************************************************)
\* C16 - internal-consistency failure: the zero-sum check comes before the
\* return; totals that are a cent or more off zero are not returned, in
\* full or in part, and GET /bills/{bill_id}/split answers 500; totals that
\* pass the check are returned as they are, with 200.
C16_ConsistencyFailure ==
    Primary =>
        LET user_totals == res.locals.user_totals
            response == get_bill_split(res)
        IN  IF Abs(SumValues(user_totals)) < 1
            THEN /\ res.status = "ok"
                 /\ response.status_code = 200
                 /\ response.splits = user_totals
            ELSE /\ res.status = "AssertionError"
                 /\ res.totals = <<>>
                 /\ response.status_code = 500
                 /\ "splits" \notin DOMAIN response

\* totals of two users that are two cents off zero are answered with a 500
C16_Witness ==
    /\ Primary
    /\ Cardinality(DOMAIN res.locals.user_totals) >= 2
    /\ SumValues(res.locals.user_totals) = 2
    /\ res.status = "AssertionError"
    /\ get_bill_split(res).status_code = 500

(***************************************************************************)
(* The bill of the endpoints (under SpecApi).                              *)
(***************************************************************************)
\* C17 - no invalid call of the primitive: on every bill that the item and
\* vote endpoints can build, the split is computed without a ValueError of
\* splitwise_split, which is called with a count of at least 1 and an
\* amount that is not negative.
C17_NoInvalidCall ==
    Primary => res.status # "ValueError"

(***************************************************************************)
(* Identifiers of any type (under SpecIds).                                *)
(***************************************************************************)
\* the bill with every item id, in items and in votes, written as a string
ItemsAsStrings == [k \in DOMAIN items |-> [items[k] EXCEPT !.id = Str(@)]]

VotesAsStrings ==
    [id \in {Str(items[k].id) : k \in DOMAIN items} |->
        votes[items[CHOOSE k \in DOMAIN items : Str(items[k].id) = id].id]]

\* C18 - identifier-type agnosticism: with item ids and keys of votes that
\* are equal values of one type, string, integer or UUID, the call returns
\* the amounts it returns for the same bill with string ids, and every item
\* whose id is a key of votes with voters is split among those voters.
C18_IdTypeAgnostic ==
    Primary =>
        /\ res.status = "ok"
        /\ res.totals
              = calculate_bill_split(ItemsAsStrings, VotesAsStrings, payer_id,
                                     res.locals.eater_list).totals
        /\ \A uid \in Users :
              Get(res.locals.item_totals, uid)
                 = SumOver([k \in VotedItems |-> ShareOfItem(uid, k)], VotedItems)

(***************************************************************************)
(* The authentication dependency of the protected endpoints.               *)
(*                                                                         *)
(*   src/app/core/dependencies.py   security = HTTPBearer() and            *)
(*                                  get_current_user                       *)
(*   src/app/utils/auth_utils.py    JWTManager.create_token, verify_token  *)
(*                                  and UserService.get_user_by_id         *)
(*   src/main.py                    the older get_current_user, of the     *)
(*                                  same structure                         *)
(*                                                                         *)
(* Time is counted in half-seconds, so that time.time() has a fractional   *)
(* part and the int() of the library's expiry check is not the identity.   *)
(* A token is the record of what it was built from: its form ("jwt", or    *)
(* "garbage" for a string that is no JWT), the key that signed it, and the *)
(* user_id, iat and exp of its payload.                                    *)
(***************************************************************************)
JWT_EXPIRATION_SECONDS == 3600

MaxTokens == 1      \* tokens issued in one behaviour

Seconds(s) == 2 * s

\* the instants the clock is sampled at: the start, and the instants around
\* the expiry of a token issued at 0 or at half a second
Instants == {0, 1, Seconds(JWT_EXPIRATION_SECONDS) - 1,
             Seconds(JWT_EXPIRATION_SECONDS),
             Seconds(JWT_EXPIRATION_SECONDS) + 1,
             Seconds(JWT_EXPIRATION_SECONDS) + 2}

Garbage == [form |-> "garbage", key |-> "", user_id |-> "", iat |-> 0, exp |-> 0]

\* JWTManager.create_token at time t: exp = time.time() + expiration_seconds
create_token(user_id, t) ==
    [form |-> "jwt", key |-> "secret_key", user_id |-> user_id, iat |-> t,
     exp |-> t + Seconds(JWT_EXPIRATION_SECONDS)]

\* int(x) of a time x, in half-seconds
IntSeconds(x) == (x \div 2) * 2

\* pyjwt.decode(token, secret_key, algorithms): the payload, or the
\* exception raised; the expiry check is int(payload["exp"]) <= now
pyjwt_decode(token, t) ==
    IF token.form # "jwt" THEN [raised |-> "InvalidTokenError"]
    ELSE IF token.key # "secret_key" THEN [raised |-> "InvalidTokenError"]
    ELSE IF IntSeconds(token.exp) <= t THEN [raised |-> "ExpiredSignatureError"]
    ELSE [raised |-> "", payload |-> token]

\* JWTManager.verify_token at time t: the payload, or the HTTPException
verify_token(token, t) ==
    LET decoded == pyjwt_decode(token, t)
    IN  IF decoded.raised = "ExpiredSignatureError"
        THEN [status_code |-> 401, detail |-> "Token has expired"]
        ELSE IF decoded.raised = "InvalidTokenError"
        THEN [status_code |-> 401, detail |-> "Invalid token"]
        ELSE IF decoded.payload.exp < t
        \* the HTTPException raised inside the try is caught by the last
        \* except clause and raised again as a 401
        THEN [status_code |-> 401, detail |-> "Token verification failed"]
        ELSE [status_code |-> 200, payload |-> decoded.payload]

\* UserService.get_user_by_id: the row, or None
get_user_by_id(user_id) == user_id \in users_table

\* security = HTTPBearer(), with auto_error left at its default: a request
\* without an Authorization header, or with one that is not of the Bearer
\* scheme, is answered by the dependency itself, with the status of the
\* installed framework version (403 in the older ones, 401 in the newer)
HTTPBearer(authorization) ==
    IF authorization.scheme = "none"
    THEN [status_code |-> not_authenticated, detail |-> "Not authenticated"]
    ELSE IF authorization.scheme # "Bearer"
    THEN [status_code |-> not_authenticated,
          detail |-> "Invalid authentication credentials"]
    ELSE [status_code |-> 200, credentials |-> authorization.credentials]

\* get_current_user at time t, run after its security dependency
get_current_user(authorization, auth_token, t) ==
    LET credentials == HTTPBearer(authorization)
    IN  IF credentials.status_code # 200
        THEN [status_code |-> credentials.status_code,
              detail |-> credentials.detail, handler_ran |-> FALSE]
        ELSE LET from_header == credentials.credentials
                 token == IF from_header.form # "none" THEN from_header
                          ELSE auth_token
             IN  IF token.form = "none"
                 THEN [status_code |-> 401, handler_ran |-> FALSE,
                       detail |-> "Authentication credentials not provided"]
                 ELSE LET verified == verify_token(token, t)
                      IN  IF verified.status_code # 200
                          THEN [status_code |-> 401, handler_ran |-> FALSE,
                                detail |-> verified.detail]
                          ELSE IF ~get_user_by_id(verified.payload.user_id)
                          THEN [status_code |-> 401, handler_ran |-> FALSE,
                                detail |-> "User not found"]
                          ELSE [status_code |-> 200, handler_ran |-> TRUE,
                                detail |-> ""]

\* the tokens a client can send: one that was issued, one of the same
\* payload signed with another key, or a string that is no JWT
SendableTokens ==
    issued \cup {[tok EXCEPT !.key = "other_key"] : tok \in issued}
           \cup {Garbage}

Headers ==
    {NoHeader} \cup [scheme : {"Bearer", "Basic"}, credentials : SendableTokens]

Cookies == {NoToken} \cup SendableTokens

\* the users table and the installed framework version are fixed before
\* the first request
InitAuth ==
    /\ InitPrimitive
    /\ InitBill
    /\ payer_id = "alice"
    /\ InitLimiterIdle
    /\ InitEndpointsIdle
    /\ InitStoreIdle
    /\ now = 0
    /\ users_table \in SUBSET Users
    /\ not_authenticated \in {401, 403}
    /\ issued = {}
    /\ auth_response = NoResponse

\* time passes
Advance(t) ==
    /\ t > now
    /\ now' = t
    /\ UNCHANGED <<users_table, not_authenticated, issued, auth_response>>
    /\ UNCHANGED <<primVars, billVars, limiterVars, endpointVars, storeVars>>

\* a token is created for a user id, as the login endpoints and
\* src/test_auth.py do
CreateToken(user_id) ==
    /\ Cardinality(issued) < MaxTokens
    /\ issued' = issued \cup {create_token(user_id, now)}
    /\ UNCHANGED <<now, users_table, not_authenticated, auth_response>>
    /\ UNCHANGED <<primVars, billVars, limiterVars, endpointVars, storeVars>>

\* a request to a protected endpoint
Request(authorization, auth_token) ==
    /\ auth_response' =
           get_current_user(authorization, auth_token, now) @@
           [authorization |-> authorization, auth_token |-> auth_token,
            at |-> now]
    /\ UNCHANGED <<now, users_table, not_authenticated, issued>>
    /\ UNCHANGED <<primVars, billVars, limiterVars, endpointVars, storeVars>>

NextAuth ==
    \/ \E t \in Instants : Advance(t)
    \/ \E user_id \in Users : CreateToken(user_id)
    \/ \E authorization \in Headers, auth_token \in Cookies :
           Request(authorization, auth_token)

SpecAuth == InitAuth /\ [][NextAuth]_vars

\* the token a request carries: Authorization header first, auth_token
\* cookie otherwise
CarriedToken(r) ==
    IF r.authorization.scheme = "Bearer" THEN r.authorization.credentials
    ELSE r.auth_token

Answered == auth_response.status_code # 0

\* C19 - authentication gate: a request is served only if the token it
\* carries (Authorization header first, auth_token cookie otherwise) is
\* signed with the service's key, has an exp that is not earlier than the
\* time of the request and names a user of the users table; a request with
\* a missing, malformed, expired or unknown-user token is answered 401
\* without the handler being run; a token created at t is rejected at
\* every time later than t + 3600 seconds.
C19_AuthGate ==
    Answered =>
        LET r == auth_response
            token == CarriedToken(r)
            good == /\ token.form = "jwt"
                    /\ token.key = "secret_key"
                    /\ token.exp >= r.at
                    /\ token.user_id \in users_table
        IN  /\ r.handler_ran => good
            /\ ~good => (r.status_code = 401 /\ ~r.handler_ran)
            /\ (token.form = "jwt" /\
                r.at > token.iat + Seconds(JWT_EXPIRATION_SECONDS))
                   => ~r.handler_ran

(***************************************************************************)
(* The rate limiter: RateLimiter.is_allowed called by concurrent threads   *)
(* for one identifier, with the same max_requests and window_seconds.      *)
(*                                                                         *)
(*   src/app/utils/rate_limiter.py   RateLimiter                           *)
(*   src/rate_limiter.py             the older copy, the same is_allowed   *)
(*                                                                         *)
(* A call reads time.time() into current_time first (line 26) and enters   *)
(* the with self.lock block after that (line 28), so each thread has the   *)
(* positions "idle", "acquire" (current_time read, lock not yet held) and  *)
(* "locked" (inside the block).  Every iteration of the clean-up loop is a *)
(* step of its own; the limit check, the append and the return that        *)
(* releases the lock are the last step.                                    *)
(***************************************************************************)
max_requests   == 2     \* M of the calls
window_seconds == 2     \* W of the calls
MaxClock       == 3     \* the clock stops here
MaxCalls       == 4     \* is_allowed calls in one behaviour

InitLimiter ==
    /\ InitPrimitive
    /\ InitBill
    /\ payer_id = "alice"
    /\ InitAuthIdle
    /\ InitLimiterIdle
    /\ InitEndpointsIdle
    /\ InitStoreIdle

Started == Len(returned) + Cardinality({t \in Threads : rl_pc[t] # "idle"})

\* time.time() moves on
Tick ==
    /\ clock < MaxClock
    /\ clock' = clock + 1
    /\ UNCHANGED <<requests, lock, rl_pc, current_time, returned>>
    /\ UNCHANGED <<primVars, billVars, authVars, endpointVars, storeVars>>

\* line 26: current_time = time.time()
ReadTime(t) ==
    /\ rl_pc[t] = "idle"
    /\ Started < MaxCalls
    /\ current_time' = [current_time EXCEPT ![t] = clock]
    /\ rl_pc' = [rl_pc EXCEPT ![t] = "acquire"]
    /\ UNCHANGED <<clock, requests, lock, returned>>
    /\ UNCHANGED <<primVars, billVars, authVars, endpointVars, storeVars>>

\* line 28: with self.lock
Acquire(t) ==
    /\ rl_pc[t] = "acquire"
    /\ lock = NoThread
    /\ lock' = t
    /\ rl_pc' = [rl_pc EXCEPT ![t] = "locked"]
    /\ UNCHANGED <<clock, requests, current_time, returned>>
    /\ UNCHANGED <<primVars, billVars, authVars, endpointVars, storeVars>>

\* the condition of the clean-up loop, line 31
Expired(t) ==
    /\ requests # <<>>
    /\ Head(requests) <= current_time[t] - window_seconds

\* lines 31-32: one iteration, request_times.popleft()
PopLeft(t) ==
    /\ rl_pc[t] = "locked"
    /\ Expired(t)
    /\ requests' = Tail(requests)
    /\ UNCHANGED <<clock, lock, rl_pc, current_time, returned>>
    /\ UNCHANGED <<primVars, billVars, authVars, endpointVars, storeVars>>

\* lines 35-40: the limit check, the append, the return; leaving the block
\* releases the lock
CheckAndAppend(t) ==
    /\ rl_pc[t] = "locked"
    /\ ~Expired(t)
    /\ LET allowed == ~(Len(requests) >= max_requests)
       IN  /\ requests' = IF allowed THEN Append(requests, current_time[t])
                          ELSE requests
           /\ returned' = Append(returned, [allowed |-> allowed,
                                            current_time |-> current_time[t]])
    /\ lock' = NoThread
    /\ rl_pc' = [rl_pc EXCEPT ![t] = "idle"]
    /\ UNCHANGED <<clock, current_time>>
    /\ UNCHANGED <<primVars, billVars, authVars, endpointVars, storeVars>>

NextLimiter ==
    \/ Tick
    \/ \E t \in Threads : ReadTime(t)
    \/ \E t \in Threads : Acquire(t)
    \/ \E t \in Threads : PopLeft(t)
    \/ \E t \in Threads : CheckAndAppend(t)

SpecLimiter == InitLimiter /\ [][NextLimiter]_vars

\* the calls that returned True with a current_time in [s, s + W)
AllowedIn(s) ==
    {i \in DOMAIN returned :
        /\ returned[i].allowed
        /\ s <= returned[i].current_time
        /\ returned[i].current_time < s + window_seconds}

\* only the holder of the lock is inside the with block
Atomic ==
    \A t \in Threads : rl_pc[t] = "locked" => lock = t

\* C20 - rate-limiter window bound: under any interleaving of concurrent
\* is_allowed calls for one identifier, the stored list never holds more
\* than M timestamps, at most M of the calls made within any interval
\* [s, s + W) return True, and the clean-up, the check and the append of a
\* call run with no other call inside the block.
C20_WindowBound ==
    /\ Len(requests) <= max_requests
    /\ \A s \in 0..MaxClock : Cardinality(AllowedIn(s)) <= max_requests
    /\ Atomic

(***************************************************************************)
(* The rate-limited endpoints: the rate_limit decorator around the four    *)
(* endpoints that carry it, all on the one module-level rate_limiter.      *)
(*                                                                         *)
(*   src/app/utils/rate_limiter.py   rate_limit, is_allowed,               *)
(*                                   get_reset_time                        *)
(*   src/app/routers/bills.py        create_bill (30 per 3600 s per user), *)
(*                                   process_bill_image (5 per 60 s per    *)
(*                                   user)                                 *)
(*   src/app/routers/users.py        create_user (5 per 3600 s per ip)     *)
(*   src/app/routers/auth.py         authenticate_google (10 per 3600 s    *)
(*                                   per ip)                               *)
(*                                                                         *)
(* The wrappers are coroutines and is_allowed has no await in it, so the   *)
(* calls of one server process run one at a time: a request is one step.   *)
(* The limits are scaled down, keeping their order: the window of          *)
(* process_bill_image is shorter than that of create_bill and its limit    *)
(* lower, the two per-ip endpoints have the same window and                *)
(* authenticate_google the higher limit.                                   *)
(***************************************************************************)
MaxRequests == 4    \* requests in one behaviour

\* the decorator arguments and the parameter names of each endpoint
Endpoints ==
    [create_bill |->
        [max_requests |-> 2, window_seconds |-> 3, per |-> "user",
         parameters |-> {"bill", "current_user", "database"}],
     process_bill_image |->
        [max_requests |-> 1, window_seconds |-> 1, per |-> "user",
         parameters |-> {"file", "group_id", "uploaded_by", "current_user",
                         "database"}],
     create_user |->
        [max_requests |-> 1, window_seconds |-> 3, per |-> "ip",
         parameters |-> {"user", "current_user", "database"}],
     authenticate_google |->
        [max_requests |-> 2, window_seconds |-> 3, per |-> "ip",
         parameters |-> {"auth_request", "google_verifier", "jwt_manager",
                         "user_service"}]]

EndpointNames == DOMAIN Endpoints

\* who sends a request: the authenticated user and the address of the client
Clients == {[user |-> "alice", ip |-> "10.0.0.1", forwarded_for |-> ""],
            [user |-> "bob",   ip |-> "10.0.0.2", forwarded_for |-> ""]}

\* lines 66-94 of the wrapper: request and current_user are looked for in
\* the bound arguments of the endpoint, and the identifier follows
Identifier(endpoint, client) ==
    LET e == Endpoints[endpoint]
        request == "request" \in e.parameters
        current_user == "current_user" \in e.parameters
    IN  IF e.per = "user" /\ current_user THEN <<"user", client.user>>
        ELSE IF request
        THEN <<"ip", IF client.forwarded_for # "" THEN client.forwarded_for
                     ELSE client.ip>>
        ELSE <<"unknown", "">>

\* self.requests[identifier] of the defaultdict
Bucket(identifier) ==
    IF identifier \in DOMAIN buckets THEN buckets[identifier] ELSE <<>>

\* the clean-up loop with < in place of <=
RECURSIVE CleanOldStrict(_, _, _)
CleanOldStrict(request_times, t, W) ==
    IF request_times # <<>> /\ Head(request_times) < t - W
    THEN CleanOldStrict(Tail(request_times), t, W)
    ELSE request_times

\* lines 31-32: the clean-up loop of is_allowed
RECURSIVE CleanOld(_, _, _)
CleanOld(request_times, t, W) ==
    IF request_times # <<>> /\ Head(request_times) <= t - W
    THEN CleanOld(Tail(request_times), t, W)
    ELSE request_times

\* is_allowed recording the timestamp of a denied call as well
is_allowed_recording(request_times, t, M, W) ==
    LET cleaned == CleanOld(request_times, t, W)
    IN  [allowed |-> ~(Len(cleaned) >= M),
         request_times |-> Append(cleaned, t)]

\* RateLimiter.is_allowed at time t, the whole call: its answer and the
\* deque it leaves
is_allowed(request_times, t, M, W) ==
    LET cleaned == CleanOld(request_times, t, W)
    IN  IF Len(cleaned) >= M
        THEN [allowed |-> FALSE, request_times |-> cleaned]
        ELSE [allowed |-> TRUE, request_times |-> Append(cleaned, t)]

NoTime == -1

\* RateLimiter.get_reset_time
get_reset_time(request_times, W) ==
    IF request_times = <<>> THEN NoTime ELSE Head(request_times) + W

\* a request to a rate-limited endpoint: the wrapper of rate_limit
Call(endpoint, client) ==
    /\ Len(rl_log) < MaxRequests
    /\ LET e == Endpoints[endpoint]
           identifier == Identifier(endpoint, client)
           before == Bucket(identifier)
           r == is_allowed(before, clock, e.max_requests, e.window_seconds)
           reset_time == get_reset_time(r.request_times, e.window_seconds)
           retry_after == IF reset_time # NoTime THEN reset_time - clock
                          ELSE e.window_seconds
       IN  /\ buckets' = [x \in DOMAIN buckets \cup {identifier} |->
                            IF x = identifier THEN r.request_times
                            ELSE buckets[x]]
           /\ rl_log' = Append(rl_log,
                  [endpoint |-> endpoint, user |-> client.user,
                   ip |-> client.ip, identifier |-> identifier,
                   at |-> clock, reset_time |-> reset_time,
                   status_code |-> IF r.allowed THEN 200 ELSE 429])
           /\ rl_last' =
                  [endpoint |-> endpoint, identifier |-> identifier,
                   status_code |-> IF r.allowed THEN 200 ELSE 429,
                   headers |-> IF r.allowed THEN <<>>
                               ELSE [Retry_After |-> retry_after],
                   invoked |-> r.allowed, at |-> clock,
                   before |-> before, after |-> r.request_times]
    /\ UNCHANGED <<primVars, billVars, authVars, limiterVars, storeVars>>

InitEndpoints ==
    /\ InitPrimitive
    /\ InitBill
    /\ payer_id = "alice"
    /\ InitAuthIdle
    /\ InitLimiterIdle
    /\ InitEndpointsIdle
    /\ InitStoreIdle

NextEndpoints ==
    \/ Tick
    \/ \E endpoint \in EndpointNames, client \in Clients :
           Call(endpoint, client)

SpecEndpoints == InitEndpoints /\ [][NextEndpoints]_vars

\* the requests of the log that were admitted to an endpoint for a user
\* at a time in [s, s + W), W the window of the endpoint
AdmittedIn(endpoint, user, s) ==
    {i \in DOMAIN rl_log :
        /\ rl_log[i].endpoint = endpoint
        /\ rl_log[i].user = user
        /\ rl_log[i].status_code = 200
        /\ s <= rl_log[i].at
        /\ rl_log[i].at < s + Endpoints[endpoint].window_seconds}

\* C21 - per-user limit on bill creation: whatever requests a user sends to
\* the rate-limited endpoints, at most max_requests of their POST /bills
\* requests are admitted within any window of window_seconds.
C21_BillCreationLimit ==
    \A client \in Clients : \A s \in 0..MaxClock :
        Cardinality(AdmittedIn("create_bill", client.user, s))
            <= Endpoints["create_bill"].max_requests

\* the requests an address has sent to an endpoint within the window that
\* ends at time t
SentInWindow(endpoint, ip, t) ==
    {i \in DOMAIN rl_log :
        /\ rl_log[i].endpoint = endpoint
        /\ rl_log[i].ip = ip
        /\ rl_log[i].at > t - Endpoints[endpoint].window_seconds}

\* C22 - per-IP isolation: a request to an endpoint limited per ip, from an
\* address that has sent fewer than max_requests requests to it within the
\* window, is not denied, whatever other addresses have sent and whatever
\* was sent to the other endpoint.
C22_PerIpIsolation ==
    \A i \in DOMAIN rl_log :
        LET call == rl_log[i]
            earlier == SentInWindow(call.endpoint, call.ip, call.at)
                           \cap 1..(i - 1)
        IN  (/\ Endpoints[call.endpoint].per = "ip"
             /\ Cardinality(earlier) < Endpoints[call.endpoint].max_requests)
                => call.status_code = 200

\* C23 - a denied request has no effect: the wrapper answers 429 with a
\* Retry-After header, the endpoint is not invoked, and the deque of the
\* identifier is what it was before the request without its expired
\* timestamps: the denied call has recorded nothing.
C23_DeniedNoEffect ==
    rl_last.status_code = 429 =>
        LET W == Endpoints[rl_last.endpoint].window_seconds
            Unexpired(x) == x > rl_last.at - W
        IN  /\ "Retry_After" \in DOMAIN rl_last.headers
            /\ ~rl_last.invoked
            /\ rl_last.after = SelectSeq(rl_last.before, Unexpired)
            /\ buckets[rl_last.identifier] = rl_last.after

\* a request was denied after the clean-up had removed an expired timestamp
C23_Witness ==
    /\ rl_last.status_code = 429
    /\ Len(rl_last.after) < Len(rl_last.before)

\* the least element of a non-empty set of numbers
Least(S) == CHOOSE x \in S : \A y \in S : x <= y

\* the requests of the log that went to the deque of an identifier
CallsOn(identifier) ==
    {i \in DOMAIN rl_log : rl_log[i].identifier = identifier}

\* every request on the identifier came with the same max_requests and
\* window_seconds
SameLimits(identifier) ==
    \A i, j \in CallsOn(identifier) : rl_log[i].endpoint = rl_log[j].endpoint

\* get_reset_time answers the oldest recorded timestamp plus window_seconds
ResetIsOldest ==
    rl_last.after # <<>> =>
        get_reset_time(rl_last.after,
                       Endpoints[rl_last.endpoint].window_seconds)
            = Least(Range(rl_last.after))
                  + Endpoints[rl_last.endpoint].window_seconds

\* a denied identifier has its reset time within window_seconds
ResetWithinWindow ==
    \A i \in DOMAIN rl_log :
        rl_log[i].status_code = 429 =>
            rl_log[i].reset_time
                <= rl_log[i].at + Endpoints[rl_log[i].endpoint].window_seconds

NextOn(i, j) ==
    /\ i < j
    /\ rl_log[i].identifier = rl_log[j].identifier
    /\ \A k \in CallsOn(rl_log[i].identifier) : ~(i < k /\ k < j)

Procs == {"p1", "p2"}

MaxToggles == 3     \* toggle_item_vote requests in one behaviour

Idle == [pc |-> "idle", item_id |-> ItemId(0), user_id |-> "", ate |-> FALSE,
         existing |-> FALSE]

\* the rows of the votes table for an item and a user
VoteRows(item_id, user_id) ==
    {v \in db.votes : v.item_id = item_id /\ v.user_id = user_id}

\* the rows of a set in the order of their ids
RECURSIVE RowsById(_)
RowsById(rows) ==
    IF rows = {} THEN <<>>
    ELSE LET first == CHOOSE r \in rows : \A q \in rows : r.id.v <= q.id.v
         IN  <<first>> \o RowsById(rows \ {first})

\* the votes rows in the order they were inserted
RECURSIVE VotesByNumber(_)
VotesByNumber(rows) ==
    IF rows = {} THEN <<>>
    ELSE LET first == CHOOSE r \in rows : \A q \in rows : r.id <= q.id
         IN  <<first>> \o VotesByNumber(rows \ {first})

\* get_item_votes with the filter on ate left out
get_item_votes_all(item_id) ==
    LET rows == VotesByNumber({v \in db.votes : v.item_id = item_id})
    IN  [k \in DOMAIN rows |-> rows[k].user_id]

\* DatabaseService.get_item_votes: the user_id of every row of the item
\* with ate = True
get_item_votes(item_id) ==
    LET rows == VotesByNumber({v \in db.votes :
                                  v.item_id = item_id /\ v.ate})
    IN  [k \in DOMAIN rows |-> rows[k].user_id]

InitVotes ==
    /\ InitPrimitive
    /\ InitBill
    /\ payer_id = "alice"
    /\ InitAuthIdle
    /\ InitLimiterIdle
    /\ InitEndpointsIdle
    /\ db = [bills |-> {[id |-> "b1", payer_id |-> "alice"]},
             items |-> {[id |-> ItemId(1), bill_id |-> "b1", price |-> 2,
                         is_tax_or_tip |-> FALSE]},
             votes |-> {}, next_id |-> 1]
    /\ procs = [p \in Procs |-> Idle]
    /\ answers = <<>>

Busy == {p \in DOMAIN procs : procs[p].pc # "idle"}

\* the router of toggle_item_vote with a request that has no user_id
ToggleNoUser(p) ==
    /\ procs[p].pc = "idle"
    /\ Len(answers) + Cardinality(Busy) < MaxToggles
    /\ answers' = Append(answers,
           [status |-> "400", item_id |-> ItemId(1), user_id |-> "",
            ate |-> FALSE, existing |-> FALSE])
    /\ UNCHANGED <<db, procs>>
    /\ UNCHANGED <<primVars, billVars, authVars, limiterVars, endpointVars>>

\* toggle_item_vote, its first statement: the select of the existing vote
ToggleSelect(p, item_id, user_id, ate) ==
    /\ procs[p].pc = "idle"
    /\ Len(answers) + Cardinality(Busy) < MaxToggles
    /\ procs' = [procs EXCEPT ![p] =
           [pc |-> "selected", item_id |-> item_id, user_id |-> user_id,
            ate |-> ate, existing |-> VoteRows(item_id, user_id) # {}]]
    /\ UNCHANGED <<db, answers>>
    /\ UNCHANGED <<primVars, billVars, authVars, limiterVars, endpointVars>>

\* toggle_item_vote, its second statement: the update of the rows of the
\* pair, or the insert of a new row
ToggleWrite(p) ==
    /\ procs[p].pc = "selected"
    /\ LET t == procs[p]
       IN  /\ db' = IF t.existing
                    THEN [db EXCEPT !.votes =
                            {IF v \in VoteRows(t.item_id, t.user_id)
                             THEN [v EXCEPT !.ate = t.ate] ELSE v :
                             v \in db.votes}]
                    ELSE [db EXCEPT !.votes = @ \cup
                            {[id |-> db.next_id, item_id |-> t.item_id,
                              user_id |-> t.user_id, ate |-> t.ate]},
                                    !.next_id = @ + 1]
           /\ answers' = Append(answers,
                  [status |-> IF t.existing THEN "vote_updated"
                              ELSE "vote_created",
                   item_id |-> t.item_id, user_id |-> t.user_id,
                   ate |-> t.ate, existing |-> t.existing])
    /\ procs' = [procs EXCEPT ![p] = Idle]
    /\ UNCHANGED <<primVars, billVars, authVars, limiterVars, endpointVars>>

NextVotes ==
    \/ \E p \in Procs : ToggleNoUser(p)
    \/ \E p \in Procs, user_id \in Users \ {"carol"}, ate \in BOOLEAN :
           ToggleSelect(p, ItemId(1), user_id, ate)
    \/ \E p \in Procs : ToggleWrite(p)

SpecVotes == InitVotes /\ [][NextVotes]_vars

\* the completed toggles of a pair, as positions of answers
TogglesOf(item_id, user_id) ==
    {i \in DOMAIN answers :
        /\ answers[i].status # "400"
        /\ answers[i].item_id = item_id
        /\ answers[i].user_id = user_id}

\* the number of times a user occurs in a list
Occurrences(list, user_id) ==
    Cardinality({k \in DOMAIN list : list[k] = user_id})

\* C25 - one vote per user and item: under any interleaving of
\* toggle_item_vote calls the votes table has at most one row for a pair;
\* when no toggle is in progress the ate flag of the row is that of the
\* last completed toggle of the pair; a toggle answers vote_created exactly
\* when it found no row for the pair; a user occurs at most once in the
\* voter list of an item.
C25_OneVotePerPair ==
    \A user_id \in Users :
        LET item_id == ItemId(1)
            rows == VoteRows(item_id, user_id)
            done == TogglesOf(item_id, user_id)
        IN  /\ Cardinality(rows) <= 1
            /\ (Busy = {} /\ done # {}) =>
                   \A v \in rows :
                       v.ate = answers[CHOOSE i \in done :
                                           \A j \in done : j <= i].ate
            /\ \A i \in done :
                   (answers[i].status = "vote_created") <=> ~answers[i].existing
            /\ Occurrences(get_item_votes(item_id), user_id) <= 1

(***************************************************************************)
(* Edits followed by a recomputation: toggles, price updates and payer     *)
(* changes made one at a time on one bill, and GET /bills/{bill_id}/split. *)
(* An edit discards the response of the last split, so that answers holds  *)
(* a response only while the store is as the split read it.                *)
(***************************************************************************)
MaxWrites == 3      \* rows inserted into the votes table in one behaviour

BILL_ITEMS ==
    {[id |-> ItemId(1), bill_id |-> "b1", price |-> 3, is_tax_or_tip |-> FALSE],
     [id |-> ItemId(2), bill_id |-> "b1", price |-> 2, is_tax_or_tip |-> FALSE],
     [id |-> ItemId(3), bill_id |-> "b1", price |-> 1, is_tax_or_tip |-> TRUE]}

\* the items of the bill that are voted on
VotableItems == {it.id : it \in {x \in BILL_ITEMS : ~x.is_tax_or_tip}}

InitRecompute ==
    /\ InitPrimitive
    /\ InitBill
    /\ payer_id = "alice"
    /\ InitAuthIdle
    /\ InitLimiterIdle
    /\ InitEndpointsIdle
    /\ db = [bills |-> {[id |-> "b1", payer_id |-> "alice"]},
             items |-> BILL_ITEMS, votes |-> {}, next_id |-> 1]
    /\ procs = <<>>
    /\ answers = <<>>

\* toggle_item_vote run alone: the select and the write that follows it
ToggleVote(item_id, user_id, ate) ==
    /\ db.next_id <= MaxWrites
    /\ db' = IF VoteRows(item_id, user_id) # {}
             THEN [db EXCEPT !.votes =
                     {IF v \in VoteRows(item_id, user_id)
                      THEN [v EXCEPT !.ate = ate] ELSE v : v \in db.votes}]
             ELSE [db EXCEPT !.votes = @ \cup
                     {[id |-> db.next_id, item_id |-> item_id,
                       user_id |-> user_id, ate |-> ate]},
                             !.next_id = @ + 1]
    /\ answers' = <<>>
    /\ UNCHANGED procs
    /\ UNCHANGED <<primVars, billVars, authVars, limiterVars, endpointVars>>

\* PUT /items/{item_id} with a price
PutItem(item_id, price) ==
    /\ db' = [db EXCEPT !.items =
                {IF it.id = item_id THEN [it EXCEPT !.price = price] ELSE it :
                 it \in db.items}]
    /\ answers' = <<>>
    /\ UNCHANGED procs
    /\ UNCHANGED <<primVars, billVars, authVars, limiterVars, endpointVars>>

\* PUT /bills/{bill_id} with a payer_id
PutBill(bill_id, payer) ==
    /\ db' = [db EXCEPT !.bills =
                {IF b.id = bill_id THEN [b EXCEPT !.payer_id = payer] ELSE b :
                 b \in db.bills}]
    /\ answers' = <<>>
    /\ UNCHANGED procs
    /\ UNCHANGED <<primVars, billVars, authVars, limiterVars, endpointVars>>

\* DatabaseService.get_bill_items, without the votes column it adds
get_bill_items(bill_id) ==
    LET rows == RowsById({it \in db.items : it.bill_id = bill_id})
    IN  [k \in DOMAIN rows |->
            [id |-> rows[k].id, price |-> rows[k].price,
             is_tax_or_tip |-> rows[k].is_tax_or_tip]]

\* votes_by_item as get_bill_split builds it
VotesByItem(bill_id) ==
    [item_id \in {it.id : it \in {x \in db.items : x.bill_id = bill_id}} |->
        get_item_votes(item_id)]

\* GET /bills/{bill_id}/split on a bill of the store: the response for one
\* of the orders the interpreter can enumerate the eater set in
SplitResponse(bill_id, eater_list) ==
    LET bill_data == CHOOSE b \in db.bills : b.id = bill_id
    IN  get_bill_split(calculate_bill_split(get_bill_items(bill_id),
                                            VotesByItem(bill_id),
                                            bill_data.payer_id, eater_list))

GetBillSplit(bill_id) ==
    /\ \E b \in db.bills : b.id = bill_id
    /\ \E eater_list \in Enumerations(AllEaters(VotesByItem(bill_id))) :
           answers' = <<SplitResponse(bill_id, eater_list)
                            @@ [eater_list |-> eater_list]>>
    /\ UNCHANGED <<db, procs>>
    /\ UNCHANGED <<primVars, billVars, authVars, limiterVars, endpointVars>>

NextRecompute ==
    \/ \E item_id \in VotableItems, user_id \in Users, ate \in BOOLEAN :
           ToggleVote(item_id, user_id, ate)
    \/ \E price \in 2..3 : PutItem(ItemId(1), price)
    \/ \E payer \in Users : PutBill("b1", payer)
    \/ GetBillSplit("b1")

SpecRecompute == InitRecompute /\ [][NextRecompute]_vars

\* the store without the votes rows that say ate = False
WithoutRefusals == [db EXCEPT !.votes = {v \in db.votes : v.ate}]

\* the voter lists read from a store d
VotesByItemOf(d, bill_id) ==
    [item_id \in {it.id : it \in {x \in d.items : x.bill_id = bill_id}} |->
        LET rows == VotesByNumber({v \in d.votes :
                                      v.item_id = item_id /\ v.ate})
        IN  [k \in DOMAIN rows |-> rows[k].user_id]]

\* the users with ate = True on some item of the bill
AteSomething(bill_id) ==
    {v.user_id : v \in {w \in db.votes :
        /\ w.ate
        /\ \E it \in db.items : it.id = w.item_id /\ it.bill_id = bill_id}}

\* C26 - recomputation reflects current state: a split requested after the
\* edits have completed is the split of the store as it is: it names the
\* current payer, it is the split of the same store with every ate = False
\* row taken out, so that such a row earns no share of its item, and it has
\* an entry exactly for the payer and for the users with ate = True on some
\* item of the bill.
C26_Recomputation ==
    answers # <<>> =>
        LET response == answers[1]
            bill_data == CHOOSE b \in db.bills : b.id = "b1"
            cleared == calculate_bill_split(
                           get_bill_items("b1"),
                           VotesByItemOf(WithoutRefusals, "b1"),
                           bill_data.payer_id, response.eater_list)
        IN  /\ response.status_code = 200
            /\ response.payer_id = bill_data.payer_id
            /\ response.splits = cleared.totals
            /\ DOMAIN response.splits
                   = AteSomething("b1") \cup {bill_data.payer_id}

\* a split was computed while a user who is not the payer had ate = False
\* on one item and ate = True on another, after the payer was changed
C26_Witness ==
    /\ answers # <<>>
    /\ \E b \in db.bills : b.payer_id # "alice"
    /\ \E v, w \in db.votes :
           /\ v.user_id = w.user_id
           /\ ~v.ate
           /\ w.ate
           /\ \A b \in db.bills : b.payer_id # v.user_id

(***************************************************************************)
(* DELETE /bills/{bill_id} next to the requests that create items and      *)
(* votes.  delete_bill is a sequence of separate statements: the select of *)
(* the item ids, one delete of votes per item id, the delete of the items  *)
(* and the delete of the bill.  The schema of the store is not part of the *)
(* repository: a comment of the older endpoint speaks of foreign keys, the *)
(* code creates none, so a store that rejects a row whose reference is     *)
(* missing and a delete that would leave such a row, and a store that      *)
(* accepts both, are both modelled (db.foreign_keys).                      *)
(***************************************************************************)
MaxDeletes == 2     \* DELETE requests answered in one behaviour

BillIds == {"b1", "b2"}

NoDelete == [pc |-> "idle", bill_id |-> "", item_ids |-> <<>>,
             had_items |-> FALSE, before |-> <<>>]

InitDelete ==
    /\ InitPrimitive
    /\ InitBill
    /\ payer_id = "alice"
    /\ InitAuthIdle
    /\ InitLimiterIdle
    /\ InitEndpointsIdle
    /\ \E foreign_keys \in BOOLEAN :
           db = [bills |-> {[id |-> "b1", payer_id |-> "alice"]},
                 items |-> {}, votes |-> {}, next_id |-> 1,
                 foreign_keys |-> foreign_keys]
    /\ procs = [p \in Procs |-> NoDelete]
    /\ answers = <<>>

\* POST /items for a bill the client has seen: one insert
CreateItem(bill_id) ==
    /\ db.next_id <= MaxWrites
    /\ \E b \in db.bills : b.id = bill_id
    /\ db' = [db EXCEPT !.items = @ \cup
                {[id |-> ItemId(db.next_id), bill_id |-> bill_id,
                  price |-> 1, is_tax_or_tip |-> FALSE]},
                        !.next_id = @ + 1]
    /\ UNCHANGED <<procs, answers>>
    /\ UNCHANGED <<primVars, billVars, authVars, limiterVars, endpointVars>>

\* POST /votes for an item the client has seen: one insert
CreateVote(item_id, user_id) ==
    /\ db.next_id <= MaxWrites
    /\ \E it \in db.items : it.id = item_id
    /\ db' = [db EXCEPT !.votes = @ \cup
                {[id |-> db.next_id, item_id |-> item_id,
                  user_id |-> user_id, ate |-> TRUE]},
                        !.next_id = @ + 1]
    /\ UNCHANGED <<procs, answers>>
    /\ UNCHANGED <<primVars, billVars, authVars, limiterVars, endpointVars>>

Answer(p, status) ==
    Append(answers, [status |-> status, bill_id |-> procs[p].bill_id,
                     before |-> procs[p].before, after |-> db'])

\* the router: get_bill_by_id, and 404 when the bill is missing
DeleteCheck(p, bill_id) ==
    /\ procs[p].pc = "idle"
    /\ Len(answers) + Cardinality(Busy) < MaxDeletes
    /\ IF \E b \in db.bills : b.id = bill_id
       THEN /\ procs' = [procs EXCEPT ![p] =
                   [NoDelete EXCEPT !.pc = "select", !.bill_id = bill_id,
                                    !.before = db]]
            /\ UNCHANGED answers
       ELSE /\ answers' = Append(answers,
                   [status |-> "404", bill_id |-> bill_id,
                    before |-> db, after |-> db])
            /\ UNCHANGED procs
    /\ UNCHANGED db
    /\ UNCHANGED <<primVars, billVars, authVars, limiterVars, endpointVars>>

\* delete_bill: the select of the ids of the items of the bill
DeleteSelect(p) ==
    /\ procs[p].pc = "select"
    /\ LET rows == RowsById({it \in db.items : it.bill_id = procs[p].bill_id})
           item_ids == [k \in DOMAIN rows |-> rows[k].id]
       IN  procs' = [procs EXCEPT ![p].item_ids = item_ids,
                                  ![p].had_items = item_ids # <<>>,
                                  ![p].pc = IF item_ids # <<>> THEN "votes"
                                            ELSE "bill"]
    /\ UNCHANGED <<db, answers>>
    /\ UNCHANGED <<primVars, billVars, authVars, limiterVars, endpointVars>>

\* delete_bill: the delete of the votes of the next item id
DeleteVotes(p) ==
    /\ procs[p].pc = "votes"
    /\ db' = [db EXCEPT !.votes =
                {v \in @ : v.item_id # Head(procs[p].item_ids)}]
    /\ procs' = [procs EXCEPT ![p].item_ids = Tail(@),
                              ![p].pc = IF Tail(procs[p].item_ids) = <<>>
                                        THEN "items" ELSE "votes"]
    /\ UNCHANGED answers
    /\ UNCHANGED <<primVars, billVars, authVars, limiterVars, endpointVars>>

\* delete_bill: the delete of the items of the bill; a store with foreign
\* keys refuses it while a vote refers to one of them, and the router
\* answers 500
DeleteItems(p) ==
    /\ procs[p].pc = "items"
    /\ LET mine == {it \in db.items : it.bill_id = procs[p].bill_id}
           refused == /\ db.foreign_keys
                      /\ \E v \in db.votes : \E it \in mine : v.item_id = it.id
       IN  IF refused
           THEN /\ UNCHANGED db
                /\ answers' = Answer(p, "500")
                /\ procs' = [procs EXCEPT ![p] = NoDelete]
           ELSE /\ db' = [db EXCEPT !.items = @ \ mine]
                /\ procs' = [procs EXCEPT ![p].pc = "bill"]
                /\ UNCHANGED answers
    /\ UNCHANGED <<primVars, billVars, authVars, limiterVars, endpointVars>>

\* delete_bill: the delete of the bill, and the answer of the router
DeleteBill(p) ==
    /\ procs[p].pc = "bill"
    /\ LET refused == /\ db.foreign_keys
                      /\ \E it \in db.items : it.bill_id = procs[p].bill_id
       IN  IF refused
           THEN /\ UNCHANGED db
                /\ answers' = Answer(p, "500")
           ELSE /\ db' = [db EXCEPT !.bills =
                            {b \in @ : b.id # procs[p].bill_id}]
                /\ answers' = Answer(p, "deleted")
    /\ procs' = [procs EXCEPT ![p] = NoDelete]
    /\ UNCHANGED <<primVars, billVars, authVars, limiterVars, endpointVars>>

NextDelete ==
    \/ \E bill_id \in BillIds : CreateItem(bill_id)
    \/ \E k \in 1..MaxWrites, user_id \in Users : CreateVote(ItemId(k), user_id)
    \/ \E p \in Procs, bill_id \in BillIds : DeleteCheck(p, bill_id)
    \/ \E p \in Procs : DeleteSelect(p)
    \/ \E p \in Procs : DeleteVotes(p)
    \/ \E p \in Procs : DeleteItems(p)
    \/ \E p \in Procs : DeleteBill(p)

SpecDelete == InitDelete /\ [][NextDelete]_vars

\* no vote of the store d refers to a missing item, no item to a missing bill
NoDanglingRows(d) ==
    /\ \A v \in d.votes : \E it \in d.items : it.id = v.item_id
    /\ \A it \in d.items : \E b \in d.bills : b.id = it.bill_id

OldOk == pc = "old" /\ resOld.status = "ok"

\* the votes with the voter list of every non-tax item replaced by the list
\* of all the eaters of the bill
VotesOfAllEaters ==
    [id \in DOMAIN votes |->
        IF \E k \in DOMAIN items : items[k].id = id /\ ~items[k].is_tax_or_tip
        THEN SetToSeq(AllEaters(votes)) ELSE votes[id]]

PriceZeroed(k) == [items EXCEPT ![k].price = 0]

Split == Primary /\ Eaters # {} /\ res.status = "ok"

\* the shares accumulated for all the eaters by steps 2 and 3
Accumulated == SumValues(res.locals.user_base_totals)

\* the first half of C29: the accumulated shares are the voted prices plus
\* the pool
AccumulatedIsBill == Split => Accumulated = VotedPrices + Pool

\* C29 - no cent is lost: with cent-exact non-negative prices and eaters,
\* the shares accumulated for the eaters sum exactly to the prices of the
\* voted non-tax items plus the pool, and the amount owed to the payer,
\* -totals[payer_id], equals that sum minus the payer's own share.
C29_NoCentLost ==
    Split =>
        /\ Accumulated = VotedPrices + Pool
        /\ res.locals.total_others_owe
              = FloatOfCents(VotedPrices + Pool
                             - Get(res.locals.user_base_totals, payer_id))

(***************************************************************************)
(* POST /bills/process-image (under SpecImage).  A request carries a file; *)
(* what the validator and the extractor make of it is part of the input:   *)
(* the file is an acceptable image or not, and the extractor raises or     *)
(* returns a parsed receipt, whose entries are whatever the model answered *)
(* (an entry without a name, a price that is no number).  An insert into   *)
(* the store succeeds, or fails and leaves no row.  The handler awaits the *)
(* file and the store, so two requests interleave.                         *)
(***************************************************************************)
MaxUploads == 2     \* process-image requests in one behaviour

Pizza == [name |-> "Pizza", price |-> 5, numeric |-> TRUE, is_tax_or_tip |-> FALSE]

\* an entry whose price float() does not accept
NoPrice == [name |-> "Cola", price |-> 0, numeric |-> FALSE, is_tax_or_tip |-> FALSE]

\* an entry without the key "name"
NoName == [name |-> "", price |-> 2, numeric |-> TRUE, is_tax_or_tip |-> FALSE]

Receipt(its, tax_amount, tip_amount) ==
    [raises |-> FALSE, items |-> its, tax_amount |-> tax_amount,
     tip_amount |-> tip_amount]

\* what extract_items_from_receipt does with the bytes of a file
Extractions ==
    { [raises |-> TRUE, items |-> <<>>, tax_amount |-> 0, tip_amount |-> 0],
      Receipt(<<>>, 0, 0),
      Receipt(<<>>, 1, 0),
      Receipt(<<Pizza>>, 0, 0),
      Receipt(<<Pizza>>, 1, 1),
      Receipt(<<Pizza, NoPrice>>, 0, 0),
      Receipt(<<NoName>>, 0, 1) }

Files == [valid : BOOLEAN, result : Extractions]

NoUpload == [pc |-> "idle", request |-> 0, file |-> [valid |-> FALSE,
                 result |-> Receipt(<<>>, 0, 0)],
             bill_id |-> 0, items_to_insert |-> <<>>]

InitImage ==
    /\ InitPrimitive
    /\ InitBill
    /\ payer_id = "alice"
    /\ InitAuthIdle
    /\ InitLimiterIdle
    /\ InitEndpointsIdle
    /\ db = [bills |-> {}, items |-> {}, votes |-> {}, next_id |-> 1]
    /\ procs = [p \in Procs |-> NoUpload]
    /\ answers = <<>>

\* the request of p ends with this status
Respond(p, status_code) ==
    /\ answers' = Append(answers, [status_code |-> status_code,
                                   request |-> procs[p].request])
    /\ procs' = [procs EXCEPT ![p] = NoUpload]

\* a request arrives with a file
Upload(p, file) ==
    /\ procs[p].pc = "idle"
    /\ Len(answers) + Cardinality(Busy) < MaxUploads
    /\ procs' = [procs EXCEPT ![p] =
          [NoUpload EXCEPT !.pc = "validate", !.file = file,
                           !.request = Len(answers) + Cardinality(Busy) + 1]]
    /\ UNCHANGED <<db, answers>>
    /\ UNCHANGED <<primVars, billVars, authVars, limiterVars, endpointVars>>

\* FileValidator.validate_image_file: the HTTPException of a refused file
\* is caught by the except clause of the handler like any other exception
ValidateFile(p) ==
    /\ procs[p].pc = "validate"
    /\ IF procs[p].file.valid
       THEN procs' = [procs EXCEPT ![p].pc = "extract"] /\ UNCHANGED answers
       ELSE Respond(p, 500)
    /\ UNCHANGED db
    /\ UNCHANGED <<primVars, billVars, authVars, limiterVars, endpointVars>>

\* extract_items_from_receipt
ExtractItems(p) ==
    /\ procs[p].pc = "extract"
    /\ IF procs[p].file.result.raises
       THEN Respond(p, 500)
       ELSE procs' = [procs EXCEPT ![p].pc = "create_bill"] /\ UNCHANGED answers
    /\ UNCHANGED db
    /\ UNCHANGED <<primVars, billVars, authVars, limiterVars, endpointVars>>

\* database.create_bill(bill_data): the row is in the store when the insert
\* returns it
CreateBillRow(p) ==
    /\ procs[p].pc = "create_bill"
    /\ \E inserted \in BOOLEAN :
          IF inserted
          THEN /\ db' = [db EXCEPT !.bills = @ \cup {[id |-> db.next_id,
                                                      payer_id |-> "",
                                                      request |-> procs[p].request]},
                                   !.next_id = @ + 1]
               /\ procs' = [procs EXCEPT ![p].pc = "build",
                                         ![p].bill_id = db.next_id]
               /\ UNCHANGED answers
          ELSE Respond(p, 500) /\ UNCHANGED db
    /\ UNCHANGED <<primVars, billVars, authVars, limiterVars, endpointVars>>

\* the rows of the entries of the receipt, then Tax and Tip when positive
ItemsToInsert(result, bill_id) ==
    [k \in DOMAIN result.items |->
        [bill_id |-> bill_id, name |-> result.items[k].name,
         price |-> result.items[k].price,
         is_tax_or_tip |-> result.items[k].is_tax_or_tip]]
    \o (IF result.tax_amount > 0
        THEN <<[bill_id |-> bill_id, name |-> "Tax", price |-> result.tax_amount,
                is_tax_or_tip |-> TRUE]>>
        ELSE <<>>)
    \o (IF result.tip_amount > 0
        THEN <<[bill_id |-> bill_id, name |-> "Tip", price |-> result.tip_amount,
                is_tax_or_tip |-> TRUE]>>
        ELSE <<>>)

\* item["name"] or float(item["price"]) raises for some entry
BadEntry(result) ==
    \E k \in DOMAIN result.items :
        result.items[k].name = "" \/ ~result.items[k].numeric

\* the loop that builds items_to_insert
BuildItems(p) ==
    /\ procs[p].pc = "build"
    /\ IF BadEntry(procs[p].file.result)
       THEN Respond(p, 500)
       ELSE /\ procs' = [procs EXCEPT ![p].pc = "insert",
                            ![p].items_to_insert =
                                ItemsToInsert(procs[p].file.result, procs[p].bill_id)]
            /\ UNCHANGED answers
    /\ UNCHANGED db
    /\ UNCHANGED <<primVars, billVars, authVars, limiterVars, endpointVars>>

\* database.create_items_bulk(items_to_insert): an insert that returns no
\* rows raises "Failed to create items", and an insert of no rows returns
\* none
CreateItemsBulk(p) ==
    /\ procs[p].pc = "insert"
    /\ \E inserted \in BOOLEAN :
          IF inserted /\ procs[p].items_to_insert # <<>>
          THEN /\ db' = [db EXCEPT !.items = @ \cup
                            {procs[p].items_to_insert[k] @@ ("id" :> ItemId(10 * procs[p].bill_id + k))
                                : k \in DOMAIN procs[p].items_to_insert}]
               /\ Respond(p, 200)
          ELSE Respond(p, 500) /\ UNCHANGED db
    /\ UNCHANGED <<primVars, billVars, authVars, limiterVars, endpointVars>>

NextImage ==
    \/ \E p \in Procs, file \in Files : Upload(p, file)
    \/ \E p \in Procs : ValidateFile(p)
    \/ \E p \in Procs : ExtractItems(p)
    \/ \E p \in Procs : CreateBillRow(p)
    \/ \E p \in Procs : BuildItems(p)
    \/ \E p \in Procs : CreateItemsBulk(p)

SpecImage ==
    InitImage /\ [][NextImage]_vars

\* the rows a request has left in the store
RowsOf(request) ==
    LET bills == {b \in db.bills : b.request = request}
    IN  bills \cup {it \in db.items : \E b \in bills : it.bill_id = b.id}

\* C30 - process_bill_image is all-or-nothing: nothing is written while
\* the file is validated and the receipt extracted, and a request answered
\* with an error has left no bill row and no item row in the store.
C30_AllOrNothing ==
    /\ \A p \in Procs :
          procs[p].pc \in {"validate", "extract"} => RowsOf(procs[p].request) = {}
    /\ \A i \in DOMAIN answers :
          answers[i].status_code >= 400 => RowsOf(answers[i].request) = {}

====
